---- MODULE Spec2Model ----
(***************************************************************************)
(* lib/Models/ArcGisPortalItemReference.ts: the format rules, the matching *)
(* of a portal item against them and the asynchronous resolution of the    *)
(* reference (forceLoadReference) into a target model.  A step of the      *)
(* model is the code that runs between two network answers.                *)
(*                                                                         *)
(* Strings that regular expressions are tested against (item.type,         *)
(* item.url) are sequences of tokens; a token stands for a fixed piece of  *)
(* text ("h" is "https://x/arcgis/rest/services/Foo").  A regular          *)
(* expression is a set of alternatives, each a token pattern that may be   *)
(* anchored at the end of the string ($).                                  *)
(***************************************************************************)
EXTENDS Integers, Sequences, FiniteSets, TLC

\* an absent string-valued field
None == "undefined"
\* an optional structured value: Undef, or Some(v) holding v
Undef == << >>
Some(v) == << v >>

\* the least element of a set of numbers
Min(S) == CHOOSE x \in S : \A y \in S : x <= y

(* ------------------------------ bounds --------------------------------- *)
\* invocations of forceLoadReference on the reference
MaxCalls == 2
\* edits of the reference's identity (itemId / url / catalog group url)
MaxChanges == 1
\* length of the rule lists the matcher is checked on (besides the default)
MaxRules == 2
\* calls of load() on the WMS group
MaxLoads == 3
\* stories of a terria
MaxStories == 3
\* calls of createSplitterItems by one diff tool
MaxSplits == 3

(* --------------------------- regular expressions ----------------------- *)
Digits == {"0", "3"}

\* String.prototype.toLowerCase on a token (the "i" flag compares folded text)
Lower(tok) ==
  CASE tok = "FeatureServer" -> "featureserver"
    [] tok = "MapServer" -> "mapserver"
    [] tok = "SceneServer" -> "sceneserver"
    [] tok = "WMSServer" -> "wmsserver"
    [] tok = "Feature Service" -> "feature service"
    [] tok = "Map Service" -> "map service"
    [] tok = "Scene Service" -> "scene service"
    [] tok = "WMS" -> "wms"
    [] tok = "KML" -> "kml"
    [] tok = "CSV" -> "csv"
    [] tok = "No" -> "no"
    [] tok = "Data" -> "data"
    [] OTHER -> tok

\* one pattern element against one token of the subject
TokMatches(p, tok, ignoreCase) ==
  IF p = "\\d" THEN tok \in Digits
  ELSE IF ignoreCase THEN Lower(p) = Lower(tok)
  ELSE p = tok

\* one alternative matched at position i of s
AltMatchesAt(alt, s, i, ignoreCase) ==
  /\ i + Len(alt.toks) - 1 <= Len(s)
  /\ \A j \in 1..Len(alt.toks) : TokMatches(alt.toks[j], s[i + j - 1], ignoreCase)
  /\ alt.atEnd => i + Len(alt.toks) - 1 = Len(s)

\* RegExp.prototype.test: an unanchored search for any alternative
RegexTest(re, s) ==
  \E alt \in re.alts : \E i \in 1..Len(s) : AltMatchesAt(alt, s, i, re.ignoreCase)

\* a pattern as written in a format rule: alternatives a|b, x$ anchored
Lit(toks) == [toks |-> toks, atEnd |-> FALSE]
End(toks) == [toks |-> toks, atEnd |-> TRUE]

(* ------------------------------ format rules --------------------------- *)
\* a raw rule of the supportedFormats trait; a pattern that is not given
\* (or is the empty string) is the empty set of alternatives
Rule(id, formatRegex, urlRegex, type) ==
  [id |-> id, formatRegex |-> formatRegex, urlRegex |-> urlRegex,
   definition |-> [type |-> type]]

defaultSupportedFormats ==
  << Rule("I3S", {Lit(<<"Scene Service">>)},
          {End(<<"SceneServer">>), End(<<"SceneServer", "/">>)}, "3d-tiles"),
     Rule("WMS", {Lit(<<"WMS">>)}, {Lit(<<"WMSServer">>)}, "wms"),
     Rule("ArcGIS MapServer Group", {Lit(<<"Map Service">>)},
          {End(<<"MapServer">>), End(<<"MapServer", "/">>)}, "esri-mapServer-group"),
     Rule("ArcGIS MapServer", {Lit(<<"Map Service">>)},
          {Lit(<<"MapServer", "/", "\\d">>)}, "esri-mapServer"),
     Rule("ArcGIS FeatureServer Group", {Lit(<<"Feature Service">>)},
          {End(<<"FeatureServer">>), End(<<"FeatureServer", "/">>)},
          "esri-featureServer-group"),
     Rule("ArcGIS FeatureServer", {Lit(<<"Feature Service">>)},
          {Lit(<<"FeatureServer", "/", "\\d">>)}, "esri-featureServer"),
     Rule("Kml", {Lit(<<"KML">>)}, {}, "kml") >>

\* rules a catalog may declare instead of the defaults
RuleFs == Rule("fs", {Lit(<<"Feature Service">>)}, {Lit(<<"FeatureServer">>)},
               "esri-featureServer-group")
RuleMs == Rule("ms", {Lit(<<"Map Service">>)}, {Lit(<<"MapServer">>)}, "esri-mapServer")
RuleKml == Rule("kml", {Lit(<<"KML">>)}, {}, "kml")
RuleAnyLayer == Rule("anyLayer", {}, {Lit(<<"/", "\\d">>)}, "esri-mapServer")
RuleNone == Rule("none", {}, {}, "csv")
RuleCustom == Rule("custom", {Lit(<<"Scene Service">>)}, {}, "custom-scene")

RulePool == {RuleFs, RuleMs, RuleKml, RuleAnyLayer, RuleNone, RuleCustom}

\* every list of at most MaxRules rules of the pool, and the default list
RuleLists ==
  {defaultSupportedFormats} \cup UNION {[1..n -> RulePool] : n \in 0..MaxRules}

\* the supportedFormats a reference is resolved with
FormatLists ==
  {defaultSupportedFormats, <<RuleMs, RuleAnyLayer, RuleFs>>, <<RuleCustom, RuleKml, RuleNone>>}

\* new RegExp(pattern, "i"), or undefined for an absent (falsy) pattern
prepareRegex(pattern) ==
  IF pattern = {} THEN Undef ELSE Some([alts |-> pattern, ignoreCase |-> TRUE])

prepareSupportedFormat(format) ==
  [urlRegex |-> prepareRegex(format.urlRegex),
   formatRegex |-> prepareRegex(format.formatRegex),
   definition |-> format.definition]

preparedSupportedFormats(supportedFormats) ==
  [i \in 1..Len(supportedFormats) |-> prepareSupportedFormat(supportedFormats[i])]

\* formatAccepts with || where the code has &&
formatAccepts_either(format, item) ==
  \/ format.formatRegex # Undef /\ RegexTest(format.formatRegex[1], item.type)
  \/ format.urlRegex # Undef /\ RegexTest(format.urlRegex[1], item.url)

\* the body of the for loop: does the i-th prepared format accept the item
formatAccepts(format, item) ==
  IF format.formatRegex = Undef \/ format.urlRegex = Undef
  THEN IF format.formatRegex # Undef THEN RegexTest(format.formatRegex[1], item.type)
       ELSE IF format.urlRegex # Undef THEN RegexTest(format.urlRegex[1], item.url)
       ELSE FALSE
  ELSE /\ RegexTest(format.formatRegex[1], item.type)
       /\ RegexTest(format.urlRegex[1], item.url)

RECURSIVE scanFormats(_, _, _)
scanFormats(prepared, item, i) ==
  IF i > Len(prepared) THEN Undef
  ELSE IF formatAccepts(prepared[i], item) THEN Some(prepared[i])
  ELSE scanFormats(prepared, item, i + 1)

isItemInSupportedFormats(supportedFormats, item) ==
  IF item = Undef THEN Undef
  ELSE scanFormats(preparedSupportedFormats(supportedFormats), item[1], 1)

(* ------------------------- the portal (environment) -------------------- *)
Item(id, type, url, typeKeywords) ==
  [id |-> id, type |-> type, url |-> url, typeKeywords |-> typeKeywords]

\* GET {portalRoot}/sharing/rest/content/items/{id}?f=json
PortalItem(id) ==
  CASE id = "fsGroup" -> Item(id, <<"Feature Service">>, <<"h", "/", "FeatureServer">>, {})
    [] id = "fsLayer" ->
         Item(id, <<"Feature Service">>, <<"h", "/", "FeatureServer", "/", "3">>, {})
    [] id = "fsSlash" ->
         Item(id, <<"Feature Service">>, <<"h", "/", "FeatureServer", "/">>, {})
    [] id = "fsLower" ->
         Item(id, <<"feature service">>, <<"h", "/", "featureserver", "/", "0">>, {})
    [] id = "msTiled" ->
         Item(id, <<"Map Service">>, <<"h", "/", "MapServer">>, {"Tiled", "Data"})
    [] id = "msPlain" -> Item(id, <<"Map Service">>, <<"h", "/", "MapServer">>, {"Data"})
    [] id = "msTiledOdd" -> Item(id, <<"Map Service">>, <<"h", "/", "tiles">>, {"Tiled"})
    [] id = "msTiledSlash" ->
         Item(id, <<"Map Service">>, <<"h", "/", "MapServer", "/">>, {"Tiled"})
    [] id = "scene" -> Item(id, <<"Scene Service">>, <<"h", "/", "SceneServer">>, {})
    [] id = "wms" -> Item(id, <<"WMS">>, <<"h", "/", "WMSServer">>, {})
    [] id = "kml" -> Item(id, <<"KML", " Collection">>, <<"h", "/", "doc.kml">>, {})
    [] OTHER -> Item(id, <<"CSV">>, <<"h", "/", "data.csv">>, {})

ItemIds ==
  {"fsGroup", "fsLayer", "fsSlash", "fsLower", "msTiled", "msPlain", "msTiledOdd",
   "msTiledSlash", "scene", "wms", "kml", "csv"}

Roots == {"p1", "p2"}

\* GET {portalRoot}/sharing/rest/content/items/{id}/data?f=json, when it parses
ItemInfo(error, layers) == [error |-> error, layers |-> layers]
ItemInfos ==
  { ItemInfo(FALSE, Undef), ItemInfo(FALSE, Some(<< >>)), ItemInfo(FALSE, Some(<<"0">>)),
    ItemInfo(TRUE, Some(<<"0">>)) }

(* --------------------------------- state ------------------------------- *)
VARIABLES
  ref,          \* the ArcGisPortalItemReference: its fields, traits and strata map
  heap,         \* the stratum objects that hold trait values, by identity
  allocated,    \* ArcGisPortalItemStratum instances constructed so far
  pc,           \* where each invocation of forceLoadReference stands
  pending,      \* requests in flight
  result,       \* what each invocation returned or threw
  hist,         \* per invocation: what it saw on the way
  calls,        \* invocations started
  changes,      \* identity edits made
  firstOutcome, \* the outcome of the first invocation that returned a target
  imageServerItem, \* the ArcGisImageServerCatalogItem: its traits and strata map
  objects,      \* the loadable strata constructed for it, in construction order
  mpc,          \* where each invocation of forceLoadMetadata stands
  mpending,     \* the item's requests in flight
  mhist,        \* per invocation of forceLoadMetadata: what it saw and did
  loadLog,      \* the stratum loads that returned a stratum, in that order
  sdmx,         \* the SdmxJsonCatalogItem, its structure request and its stratum
  newModel,     \* the model a loaded stratum was duplicated for, and the duplicate
  wms,          \* the WebMapServiceGroupViewModel and its GetCapabilities request
  story,        \* the StoryPanel: its stories and the story it shows
  diff          \* the DiffTool, its terria, view state and split items

\* the state of the portal item reference
refVars == <<ref, heap, allocated, pc, pending, result, hist, changes, firstOutcome>>
\* the state of the image server item
imageVars == <<imageServerItem, objects, mpc, mpending, mhist, loadLog>>

\* the state of the view models and panels
uiVars == <<wms, story, diff>>

vars == <<ref, heap, allocated, pc, pending, result, hist, calls, changes, firstOutcome,
          imageServerItem, objects, mpc, mpending, mhist, loadLog, sdmx, newModel,
          wms, story, diff>>

\* the invocations of forceLoadReference that may be in progress at once
Tasks == {"a", "b"}

\* the one stratum object that holds the traits the catalog configured
ConfigObj == "config"

\* StratumOrder for the reference's own traits: user above definition
RefTraits ==
  IF ref.strata.user # None THEN heap[ref.strata.user]
  ELSE heap[ref.strata.definition]

NoHist ==
  [itemIdAtCall |-> None, datasetAtCall |-> 0, definitionAtCall |-> Undef,
   allocatedAtCall |-> 0, changesAtCall |-> 0, refStratum |-> 0,
   itemFetchFailed |-> FALSE,
   atPrimary |-> Undef, dataFetchFailed |-> FALSE, info |-> << >>, steps |-> << >>]

NoResult == [kind |-> "none", target |-> Undef]

(* ------------------------ the reference's methods ---------------------- *)
setDataset(r, item) == [r EXCEPT !.arcgisItem = Some(item)]

setArcgisPortalCatalog(r, group) == [r EXCEPT !.arcgisPortalCatalogGroup = Some(group)]

setSupportedFormatFromItem(r, item) ==
  [r EXCEPT !.supportedFormat = isItemInSupportedFormats(r.supportedFormats, item)]

\* ArcGisPortalItemStratum.url without the Scene Service branch
stratumUrl_unprefixed(r) ==
  IF r.arcgisItem = Undef THEN Undef ELSE r.arcgisItem[1].url

\* ArcGisPortalItemStratum.url: the url trait the loaded stratum exposes
stratumUrl(r) ==
  IF r.arcgisItem = Undef THEN Undef
  ELSE IF r.arcgisItem[1].type = <<"Scene Service">>
       THEN <<"/i3s-to-3dtiles/">> \o r.arcgisItem[1].url
       ELSE r.arcgisItem[1].url

\* ArcGisPortalItemStratum.load when it awaits no request: the item is cached
\* (or the reference has no uniqueId); the new stratum is number w.allocated
loadWithoutRequest(w) ==
  LET r == w.ref
      r1 == IF r.arcgisItem # Undef /\ r.arcgisPortalCatalogGroup # Undef
            THEN [r EXCEPT !.portalRootUrl = r.arcgisPortalCatalogGroup[1].url]
            ELSE r
  IN [w EXCEPT !.ref = r1, !.allocated = @ + 1]

\* ArcGisPortalItemStratum.load once loadPortalItem has answered with item
loadWithResponse(w, item) ==
  LET r1 == [w.ref EXCEPT !.arcgisItem = Some(item)]
      r2 == setSupportedFormatFromItem(r1, r1.arcgisItem)
  IN [w EXCEPT !.ref = r2, !.allocated = @ + 1]

\* setArcgisStrata(this), after load returned: model.strata.set(stratumName, stratum)
installOnReference(w) == [w EXCEPT !.ref.strata.arcGisPortalDataset = w.allocated]

\* applyItemDataInfo without the call of setSupportedFormatFromItem
applyItemDataInfo_noRematch(r, itemDataInfo) ==
  IF itemDataInfo # Undef /\ r.arcgisItem # Undef
  THEN LET info == itemDataInfo[1]
           item == r.arcgisItem[1]
       IN IF ~info.error /\ info.layers # Undef /\ Len(info.layers[1]) > 0
          THEN [r EXCEPT !.arcgisItem =
                  Some([item EXCEPT !.url = @ \o <<"/", info.layers[1][1]>>])]
          ELSE r
  ELSE r

\* forceLoadReference, lines 343-350: what the /data answer does to the item
applyItemDataInfo(r, itemDataInfo) ==
  IF itemDataInfo # Undef /\ r.arcgisItem # Undef
  THEN LET info == itemDataInfo[1]
           item == r.arcgisItem[1]
           r1 == IF ~info.error /\ info.layers # Undef /\ Len(info.layers[1]) > 0
                 THEN [r EXCEPT !.arcgisItem =
                         Some([item EXCEPT !.url = @ \o <<"/", info.layers[1][1]>>])]
                 ELSE r
       IN setSupportedFormatFromItem(r1, r1.arcgisItem)
  ELSE r

\* applyTiledMapService with the final catch left out
applyTiledMapService_skipped(r) == r

\* forceLoadReference, lines 352-364: tiled map services
applyTiledMapService(r) ==
  IF /\ r.arcgisItem # Undef
     /\ r.arcgisItem[1].type = <<"Map Service">>
     /\ "Tiled" \in r.arcgisItem[1].typeKeywords
  THEN LET prepared == preparedSupportedFormats(r.supportedFormats)
           mapServerFormat ==
             {i \in DOMAIN prepared : prepared[i].definition.type = "esri-mapServer"}
       IN IF Cardinality(mapServerFormat) = 1
          THEN [r EXCEPT !.supportedFormat =
                  Some(prepared[CHOOSE i \in mapServerFormat : TRUE])]
          ELSE r
  ELSE r

\* the types CatalogMemberFactory has a constructor for
RegisteredTypes ==
  {"3d-tiles", "wms", "esri-mapServer-group", "esri-mapServer",
   "esri-featureServer-group", "esri-featureServer", "kml", "csv"}

\* CatalogMemberFactory.create: a new model of that type, or undefined
CatalogMemberFactoryCreate(type) ==
  IF type \in RegisteredTypes
  THEN Some([type |-> type,
             strata |-> [definition |-> None, arcGisPortalDataset |-> 0,
                         override |-> {}]])
  ELSE Undef

\* carryDefinition without model.setTrait("definition", "url", undefined)
carryDefinition_urlKept(w, model) ==
  IF w.ref.strata.definition # None
  THEN [w |-> w, model |-> [model EXCEPT !.strata.definition = w.ref.strata.definition]]
  ELSE [w |-> w, model |-> model]

\* forceLoadReference, lines 377-381: the definition stratum object is put
\* into the target's strata map and its url trait is then unset through the target
carryDefinition(w, model) ==
  IF w.ref.strata.definition # None
  THEN [w |-> [w EXCEPT !.heap[w.ref.strata.definition].url = None],
        model |-> [model EXCEPT !.strata.definition = w.ref.strata.definition]]
  ELSE [w |-> w, model |-> model]

\* the reference's resolved itemProperties trait
itemPropertiesOf(w) ==
  IF w.ref.strata.user # None THEN w.heap[w.ref.strata.user].itemProperties
  ELSE w.heap[w.ref.strata.definition].itemProperties

\* model.setTrait(stratumId, trait, value) on a stratum held as a set of
\* <<trait, value>> pairs
setTrait(stratum, trait, value) ==
  {p \in stratum : p[1] # trait} \cup {<<trait, value>>}

RECURSIVE setTraits(_, _)
setTraits(stratum, props) ==
  IF props = {} THEN stratum
  ELSE LET p == CHOOSE q \in props : TRUE
       IN setTraits(setTrait(stratum, p[1], p[2]), props \ {p})

\* forceLoadReference, lines 383-389: every key of itemProperties (a set of
\* <<key, value>> pairs) is set on the target at the override stratum
applyItemProperties(w, model) ==
  IF itemPropertiesOf(w) # Undef
  THEN [model EXCEPT !.strata.override = setTraits(@, itemPropertiesOf(w)[1])]
  ELSE model

\* forceLoadReference from line 343 to its end, given what
\* loadAdditionalPortalInfo returned
resolveTarget(w, itemDataInfo) ==
  LET rematched == itemDataInfo # Undef /\ w.ref.arcgisItem # Undef
      r1 == applyItemDataInfo(w.ref, itemDataInfo)
      r2 == applyTiledMapService(r1)
      w2 == [w EXCEPT !.ref = r2]
      s1 == IF rematched THEN <<"rematch">> ELSE << >>
  IN IF r2.supportedFormat = Undef
     THEN \* this._supportedFormat.definition: TypeError
          [w |-> w2, kind |-> "TypeError", target |-> Undef, steps |-> s1]
     ELSE LET created == CatalogMemberFactoryCreate(r2.supportedFormat[1].definition.type)
          IN IF created = Undef
             THEN [w |-> w2, kind |-> "undefined", target |-> Undef,
                   steps |-> s1 \o <<"instantiate">>]
             ELSE LET w3 == loadWithoutRequest(w2)
                      m1 == [created[1] EXCEPT !.strata.arcGisPortalDataset = w3.allocated]
                      c == carryDefinition(w3, m1)
                      m2 == applyItemProperties(c.w, c.model)
                  IN [w |-> c.w, kind |-> "target", target |-> Some(m2),
                      steps |-> s1 \o <<"instantiate">>]

(* ------------------------------- actions ------------------------------- *)
World == [ref |-> ref, heap |-> heap, allocated |-> allocated]

Commit(w) == /\ ref' = w.ref
             /\ heap' = w.heap
             /\ allocated' = w.allocated
             /\ UNCHANGED <<imageVars, sdmx, newModel, uiVars>>

Idle(t) == pc[t] \in {"idle", "done"}

Outcome(w, res, h) ==
  [format |-> w.ref.supportedFormat, url |-> stratumUrl(w.ref),
   type |-> res.target[1].type, info |-> h.info]

\* the invocation returns (or throws) res
finish(t, w, pend, h, res) ==
  /\ Commit(w)
  /\ pending' = pend
  /\ pc' = [pc EXCEPT ![t] = "done"]
  /\ result' = [result EXCEPT ![t] = res]
  /\ hist' = [hist EXCEPT ![t] = h]
  /\ firstOutcome' = IF firstOutcome = Undef /\ res.kind = "target"
                     THEN Some(Outcome(w, res, h))
                     ELSE firstOutcome

\* forceLoadReference from line 343 on
settle(t, w, pend, h, itemDataInfo) ==
  LET out == resolveTarget(w, itemDataInfo)
  IN finish(t, out.w, pend,
            [h EXCEPT !.info = <<itemDataInfo>>, !.steps = @ \o out.steps],
            [kind |-> out.kind, target |-> out.target])

\* forceLoadReference, lines 337-342, once setArcgisStrata(this) has returned
afterSetArcgisStrata(t, w, pend, h) ==
  IF w.ref.supportedFormat = Undef
  THEN finish(t, w, pend, h, [kind |-> "undefined", target |-> Undef])
  ELSE IF w.ref.arcgisItem = Undef
  THEN settle(t, w, pend, h, Undef)
  ELSE /\ Commit(w)
       /\ pending' = pend \cup {[task |-> t, kind |-> "data",
                                 root |-> w.ref.portalRootUrl,
                                 id |-> w.ref.arcgisItem[1].id]}
       /\ pc' = [pc EXCEPT ![t] = "loadAdditionalPortalInfo"]
       /\ hist' = [hist EXCEPT ![t] =
                     [h EXCEPT !.atPrimary = Some([url |-> w.ref.arcgisItem[1].url,
                                                   format |-> w.ref.supportedFormat]),
                               !.steps = @ \o <<"secondary">>]]
       /\ result' = [result EXCEPT ![t] = NoResult]
       /\ UNCHANGED firstOutcome

\* forceLoadReference with loadAdditionalPortalInfo started without awaiting
\* setArcgisStrata: both requests leave at once
forceLoadReference_notAwaited(t) ==
  /\ Idle(t)
  /\ calls < MaxCalls
  /\ calls' = calls + 1
  /\ ref' = [ref EXCEPT !.portalRootUrl = RefTraits.url]
  /\ pending' = pending \cup
        {[task |-> t, kind |-> k, root |-> RefTraits.url, id |-> RefTraits.itemId] :
           k \in {"item", "data"}}
  /\ pc' = [pc EXCEPT ![t] = "loadPortalItem"]
  /\ result' = [result EXCEPT ![t] = NoResult]
  /\ hist' = [hist EXCEPT ![t] = [NoHist EXCEPT !.steps = <<"metadata">>]]
  /\ UNCHANGED <<heap, allocated, firstOutcome, changes, imageVars, sdmx, newModel, uiVars>>

\* a call of forceLoadReference, up to its first request
forceLoadReference(t) ==
  /\ Idle(t)
  /\ calls < MaxCalls
  /\ calls' = calls + 1
  /\ UNCHANGED changes
  /\ LET h == [NoHist EXCEPT
                 !.itemIdAtCall = RefTraits.itemId,
                 !.datasetAtCall = ref.strata.arcGisPortalDataset,
                 !.allocatedAtCall = allocated,
                 !.changesAtCall = changes,
                 !.definitionAtCall = IF ref.strata.definition # None
                                      THEN Some(heap[ref.strata.definition])
                                      ELSE Undef]
     IN IF ref.arcgisItem = Undef /\ ref.uniqueId # None
        THEN \* lines 67-71: loadPortalItem is awaited
             /\ ref' = [ref EXCEPT !.portalRootUrl = RefTraits.url]
             /\ pending' = pending \cup {[task |-> t, kind |-> "item",
                                          root |-> RefTraits.url,
                                          id |-> RefTraits.itemId]}
             /\ pc' = [pc EXCEPT ![t] = "loadPortalItem"]
             /\ result' = [result EXCEPT ![t] = NoResult]
             /\ hist' = [hist EXCEPT ![t] = [h EXCEPT !.steps = <<"metadata">>]]
             /\ UNCHANGED <<heap, allocated, firstOutcome, imageVars, sdmx, newModel, uiVars>>
        ELSE afterSetArcgisStrata(t, installOnReference(loadWithoutRequest(World)),
                                  pending, [h EXCEPT !.refStratum = allocated + 1])

\* loadPortalItem answers with the item's JSON
loadPortalItemResolves(t) ==
  /\ pc[t] = "loadPortalItem"
  /\ \E req \in pending :
       /\ req.task = t /\ req.kind = "item"
       /\ afterSetArcgisStrata(
            t, installOnReference(loadWithResponse(World, PortalItem(req.id))),
            pending \ {req},
            [hist[t] EXCEPT !.steps = @ \o <<"match">>, !.refStratum = allocated + 1])
  /\ UNCHANGED <<calls, changes>>

\* loadPortalItemRejects with the error caught as loadAdditionalPortalInfo
\* catches its own: the load goes on with no item
loadPortalItemRejects_caught(t) ==
  /\ pc[t] = "loadPortalItem"
  /\ \E req \in pending :
       /\ req.task = t /\ req.kind = "item"
       /\ afterSetArcgisStrata(
            t, installOnReference([World EXCEPT !.allocated = @ + 1]),
            pending \ {req}, [hist[t] EXCEPT !.itemFetchFailed = TRUE])
  /\ UNCHANGED <<calls, changes>>

\* loadPortalItem fails (network or parse error): load, setArcgisStrata and
\* forceLoadReference all reject with that error
loadPortalItemRejects(t) ==
  /\ pc[t] = "loadPortalItem"
  /\ \E req \in pending :
       /\ req.task = t /\ req.kind = "item"
       /\ finish(t, World, pending \ {req}, [hist[t] EXCEPT !.itemFetchFailed = TRUE],
                 [kind |-> "loadError", target |-> Undef])
  /\ UNCHANGED <<calls, changes>>

\* loadAdditionalPortalInfo returns the parsed /data answer
loadAdditionalPortalInfoResolves(t) ==
  /\ pc[t] = "loadAdditionalPortalInfo"
  /\ \E req \in pending, info \in ItemInfos :
       /\ req.task = t /\ req.kind = "data"
       /\ settle(t, World, pending \ {req}, hist[t], Some(info))
  /\ UNCHANGED <<calls, changes>>

\* loadAdditionalPortalInfoRejects without the try/catch: the error propagates
loadAdditionalPortalInfoRejects_uncaught(t) ==
  /\ pc[t] = "loadAdditionalPortalInfo"
  /\ \E req \in pending :
       /\ req.task = t /\ req.kind = "data"
       /\ finish(t, World, pending \ {req}, [hist[t] EXCEPT !.dataFetchFailed = TRUE],
                 [kind |-> "loadError", target |-> Undef])
  /\ UNCHANGED <<calls, changes>>

\* the /data request fails: the catch returns undefined
loadAdditionalPortalInfoRejects(t) ==
  /\ pc[t] = "loadAdditionalPortalInfo"
  /\ \E req \in pending :
       /\ req.task = t /\ req.kind = "data"
       /\ settle(t, World, pending \ {req}, [hist[t] EXCEPT !.dataFetchFailed = TRUE], Undef)
  /\ UNCHANGED <<calls, changes>>

\* ArcGisPortalCatalogGroup creating this reference for a dataset of its
\* search result: setDataset, setArcgisPortalCatalog, setSupportedFormatFromItem
createMemberFromDataset(id) ==
  /\ \A t \in Tasks : Idle(t)
  /\ ref' = setSupportedFormatFromItem(
              setArcgisPortalCatalog(setDataset(ref, PortalItem(id)),
                                     [url |-> RefTraits.url]),
              Some(PortalItem(id)))
  /\ UNCHANGED <<heap, allocated, pc, pending, result, hist, calls, changes, firstOutcome>>
  /\ UNCHANGED <<imageVars, sdmx, newModel, uiVars>>

\* the item ids and urls an edit may give the reference
EditItemIds == {"scene"}

\* the catalog edits the reference's itemId or url trait
setIdentity ==
  /\ \A t \in Tasks : Idle(t)
  /\ calls > 0
  /\ changes < MaxChanges
  /\ changes' = changes + 1
  /\ \/ \E id \in EditItemIds \ {RefTraits.itemId} :
          heap' = [heap EXCEPT ![ConfigObj].itemId = id]
     \/ \E root \in Roots \ {RefTraits.url} :
          heap' = [heap EXCEPT ![ConfigObj].url = root]
  /\ UNCHANGED <<ref, allocated, pc, pending, result, hist, calls, firstOutcome>>
  /\ UNCHANGED <<imageVars, sdmx, newModel, uiVars>>

\* the catalog group the reference belongs to gets another url
setCatalogGroupUrl ==
  /\ \A t \in Tasks : Idle(t)
  /\ calls > 0
  /\ changes < MaxChanges
  /\ ref.arcgisPortalCatalogGroup # Undef
  /\ changes' = changes + 1
  /\ \E root \in Roots \ {ref.arcgisPortalCatalogGroup[1].url} :
       ref' = [ref EXCEPT !.arcgisPortalCatalogGroup = Some([url |-> root])]
  /\ UNCHANGED <<heap, allocated, pc, pending, result, hist, calls, firstOutcome>>
  /\ UNCHANGED <<imageVars, sdmx, newModel, uiVars>>

(* --------------------- ArcGisImageServerCatalogItem -------------------- *)
\* the invocations of forceLoadMetadata that may be in progress at once
MTasks == {"m1", "m2"}

\* String.prototype.includes, on a string held as a sequence of tokens
Includes(s, tok) == \E i \in 1..Len(s) : s[i] = tok

\* the ImageServer JSON that GET {serviceUri}?f=json answers with
ImageServerJson(capabilities, copyrightText, maxScale, serviceDescription) ==
  [capabilities |-> capabilities, copyrightText |-> copyrightText,
   maxScale |-> maxScale, serviceDescription |-> serviceDescription]

ImageServerJsons ==
  { ImageServerJson(Some(<<"Image", ",", "Metadata">>), "c1", "s1", "d1"),
    ImageServerJson(Some(<<"Catalog", ",", "Image">>), None, None, None),
    ImageServerJson(Some(<<"Metadata">>), "c1", "s1", "d1"),
    ImageServerJson(Some(<<"image">>), None, "s1", None),
    ImageServerJson(Undef, None, None, None) }

\* one entry of a layer's legend, and one layer of the legend JSON
LegendEntry(label, contentType, imageData) ==
  [label |-> label, contentType |-> contentType, imageData |-> imageData]
LegendLayer(layerName, legend) == [layerName |-> layerName, legend |-> legend]

\* the Legends JSON that GET {serviceUri}/legend?f=json answers with
LegendsJsons ==
  { [layers |-> Undef],
    [layers |-> Some(<< LegendLayer(<<"Roads">>, Some(<<LegendEntry(<< >>, "png", "i1")>>)) >>)],
    [layers |-> Some(<< LegendLayer(<<"No", "_", "Data">>,
                                    Some(<<LegendEntry(<<"n">>, "png", "i2")>>)),
                        LegendLayer(<<"Roads", "_", "Labels">>,
                                    Some(<<LegendEntry(<<"l">>, "png", "i3")>>)),
                        LegendLayer(<<"Rivers">>, Undef),
                        LegendLayer(<<"Roads">>,
                                    Some(<<LegendEntry(<<"a", "_", "b">>, "png", "i1"),
                                           LegendEntry(<<"c">>, "png", "i1")>>)) >>)] }

\* what a request comes back with: a parsed JSON, or a failure
Answered(json) == [failed |-> FALSE, response |-> Some(json)]
Failed == [failed |-> TRUE, response |-> Undef]

\* getJson: the response, or undefined when loadJson throws
getJson(outcome) == IF outcome.failed THEN Undef ELSE outcome.response

\* UrlMixin.uri: defined when the url trait is
uri(it) == it.url

\* the checks of ImageServerStratum.load on the service metadata, lines
\* 93-108: the title of the error thrown, or None
serviceMetadataError_lenient(serviceMetadata) ==
  IF serviceMetadata = Undef THEN "models.arcGisService.invalidServerTitle"
  ELSE None

serviceMetadataError(serviceMetadata) ==
  IF serviceMetadata = Undef THEN "models.arcGisService.invalidServerTitle"
  ELSE IF \/ serviceMetadata[1].capabilities = Undef
          \/ ~Includes(serviceMetadata[1].capabilities[1], "Image")
       THEN "models.arcGisImageServerCatalogItem.invalidServiceTitle"
       ELSE None

\* new ImageServerStratum(item, imageServer, token)
ImageServerStratum(model, imageServer, token) ==
  [stratumName |-> "ImageServer", model |-> model, imageServer |-> Some(imageServer),
   token |-> token, legends |-> Undef]

\* new ImageServerLegendStratum(item, legends)
ImageServerLegendStratum(model, legends) ==
  [stratumName |-> "ImageServerLegend", model |-> model, imageServer |-> Undef,
   token |-> None, legends |-> legends]

\* replaceUnderscores, on a string held as a sequence of tokens
replaceUnderscores(name) ==
  [i \in 1..Len(name) |-> IF name[i] = "_" THEN " " ELSE name[i]]

\* /^No[\s_-]?Data$/i.test(layerName)
noDataRegexTest(layerName) ==
  \/ /\ Len(layerName) = 2
     /\ Lower(layerName[1]) = "no" /\ Lower(layerName[2]) = "data"
  \/ /\ Len(layerName) = 3
     /\ Lower(layerName[1]) = "no" /\ Lower(layerName[3]) = "data"
     /\ layerName[2] \in {" ", "_", "-"}

\* /_Labels$/.test(layerName)
labelsRegexTest(layerName) ==
  /\ Len(layerName) >= 2
  /\ layerName[Len(layerName) - 1] = "_"
  /\ layerName[Len(layerName)] = "Labels"

\* the legend items of one layer, lines 240-253
layerItems(l) ==
  IF noDataRegexTest(l.layerName) \/ labelsRegexTest(l.layerName) \/ l.legend = Undef
  THEN << >>
  ELSE [i \in 1..Len(l.legend[1]) |->
          LET leg == l.legend[1][i]
          IN [title |-> replaceUnderscores(IF leg.label # << >> THEN leg.label
                                           ELSE l.layerName),
              imageUrl |-> <<"data:", leg.contentType, ";base64,", leg.imageData>>]]

RECURSIVE allLayerItems(_, _)
allLayerItems(layers, i) ==
  IF i > Len(layers) THEN << >>
  ELSE layerItems(layers[i]) \o allLayerItems(layers, i + 1)

\* uniqWith(items, same imageUrl): the first item of every imageUrl
uniqByImageUrl(items) ==
  LET keep == {i \in 1..Len(items) :
                 \A j \in 1..(i - 1) : items[j].imageUrl # items[i].imageUrl}
      F[i \in 0..Len(items)] ==
        IF i = 0 THEN << >>
        ELSE IF i \in keep THEN Append(F[i - 1], items[i]) ELSE F[i - 1]
  IN F[Len(items)]

\* ImageServerLegendStratum.legends: the items of its one legend
legends(stratum) ==
  IF stratum.legends = Undef \/ stratum.legends[1].layers = Undef THEN << >>
  ELSE uniqByImageUrl(allLayerItems(stratum.legends[1].layers[1], 1))

\* the trait values a loaded stratum of the item defines
stratumTraits(stratum) ==
  IF stratum.stratumName = "ImageServer"
  THEN [maximumScale |-> stratum.imageServer[1].maxScale,
        attribution |-> stratum.imageServer[1].copyrightText,
        serviceDescription |-> stratum.imageServer[1].serviceDescription,
        token |-> stratum.token,
        legends |-> << >>]
  ELSE [maximumScale |-> None, attribution |-> None, serviceDescription |-> None,
        token |-> None, legends |-> legends(stratum)]

\* the item's resolved token trait: the ImageServer stratum's, when loaded
itemToken(it, objs) ==
  IF it.strata.ImageServer = 0 THEN None ELSE objs[it.strata.ImageServer].token

NoStrata == [ImageServer |-> 0, ImageServerLegend |-> 0]

NoMResult == [kind |-> "none", title |-> None]

NoMHist ==
  [callNo |-> 0, strataAtCall |-> NoStrata, token |-> None, stratum |-> 0,
   service |-> << >>, installed |-> << >>, legendStarted |-> FALSE,
   legend |-> << >>, result |-> NoMResult]

MIdle(t) == mpc[t] \in {"idle", "done"}

\* strataSet keeping, for every field the new stratum leaves undefined, the
\* value of the stratum it replaces
strataSet_merged(mw, stratumName, id) ==
  LET prev == mw.item.strata[stratumName]
      old == mw.objects[prev]
      new == mw.objects[id]
      keep(a, b) == IF a = None THEN b ELSE a
      merged ==
        [new EXCEPT
           !.imageServer =
              IF new.imageServer = Undef \/ old.imageServer = Undef THEN @
              ELSE Some([capabilities |-> new.imageServer[1].capabilities,
                         copyrightText |-> keep(new.imageServer[1].copyrightText,
                                                old.imageServer[1].copyrightText),
                         maxScale |-> keep(new.imageServer[1].maxScale,
                                           old.imageServer[1].maxScale),
                         serviceDescription |->
                           keep(new.imageServer[1].serviceDescription,
                                old.imageServer[1].serviceDescription)]),
           !.legends = IF new.legends = Undef THEN old.legends ELSE @]
  IN IF prev = 0 THEN [mw EXCEPT !.item.strata[stratumName] = id]
     ELSE [mw EXCEPT !.item.strata[stratumName] = id, !.objects[id] = merged]

\* this.strata.set(stratumName, stratum), for the stratum numbered id
strataSet(mw, stratumName, id) == [mw EXCEPT !.item.strata[stratumName] = id]

\* one line of the log of loads that returned a stratum
LoadLogEntry(stratumName, id, t, h, response) ==
  [stratumName |-> stratumName, instance |-> id, task |-> t, callNo |-> h.callNo,
   token |-> h.token, response |-> response]

\* the invocation returns, or throws the error res names
mfinish(t, pend, h, res) ==
  /\ mpending' = pend
  /\ mpc' = [mpc EXCEPT ![t] = "done"]
  /\ mhist' = [mhist EXCEPT ![t] = [h EXCEPT !.result = res]]

\* ImageServerStratum.load, lines 81-91: the service metadata is requested
requestServiceMetadata(t, pend, h) ==
  /\ mpending' = pend \cup {[task |-> t, kind |-> "service", token |-> h.token]}
  /\ mpc' = [mpc EXCEPT ![t] = "serviceMetadata"]
  /\ mhist' = [mhist EXCEPT ![t] = h]

\* installImageServer that drops the stratum of an invocation after which
\* another one was started
installImageServer_unlessSuperseded(t, objs, id, pend, h) ==
  LET mw == IF h.callNo = calls
            THEN strataSet([item |-> imageServerItem, objects |-> objs], "ImageServer", id)
            ELSE [item |-> imageServerItem, objects |-> objs]
  IN /\ imageServerItem' = mw.item
     /\ objects' = mw.objects
     /\ loadLog' = Append(loadLog,
                          LoadLogEntry("ImageServer", id, t, h, objs[id].imageServer))
     /\ mpending' = pend \cup {[task |-> t, kind |-> "legend",
                                token |-> itemToken(mw.item, mw.objects)]}
     /\ mpc' = [mpc EXCEPT ![t] = "legendMetadata"]
     /\ mhist' = [mhist EXCEPT ![t] =
                    [h EXCEPT !.installed = Append(@, [stratumName |-> "ImageServer",
                                                       instance |-> id]),
                              !.legendStarted = TRUE]]

\* forceLoadMetadata, lines 293-297, once ImageServerStratum.load has returned
\* the stratum numbered id: it is set on the item and the legend loader is
\* started, which calls forceLoadLegends up to its request (lines 205-222)
installImageServer(t, objs, id, pend, h) ==
  LET mw == strataSet([item |-> imageServerItem, objects |-> objs], "ImageServer", id)
  IN /\ imageServerItem' = mw.item
     /\ objects' = mw.objects
     /\ loadLog' = Append(loadLog,
                          LoadLogEntry("ImageServer", id, t, h, objs[id].imageServer))
     /\ mpending' = pend \cup {[task |-> t, kind |-> "legend",
                                token |-> itemToken(mw.item, mw.objects)]}
     /\ mpc' = [mpc EXCEPT ![t] = "legendMetadata"]
     /\ mhist' = [mhist EXCEPT ![t] =
                    [h EXCEPT !.installed = Append(@, [stratumName |-> "ImageServer",
                                                       instance |-> id]),
                              !.legendStarted = TRUE]]

\* a call of forceLoadMetadata, up to the first request of ImageServerStratum.load
forceLoadMetadata(t) ==
  /\ MIdle(t)
  /\ calls < MaxCalls
  /\ calls' = calls + 1
  /\ LET h == [NoMHist EXCEPT !.callNo = calls + 1, !.strataAtCall = imageServerItem.strata]
     IN IF uri(imageServerItem) = None
        THEN mfinish(t, mpending, h,
                     [kind |-> "TerriaError",
                      title |-> "models.arcGisImageServerCatalogItem.invalidUrlTitle"])
        ELSE IF imageServerItem.tokenUrl # None
        THEN /\ mpending' = mpending \cup {[task |-> t, kind |-> "token", token |-> None]}
             /\ mpc' = [mpc EXCEPT ![t] = "getToken"]
             /\ mhist' = [mhist EXCEPT ![t] = h]
        ELSE requestServiceMetadata(t, mpending, h)
  /\ UNCHANGED <<refVars, imageServerItem, objects, loadLog, sdmx, newModel, uiVars>>

\* getToken answers with a token
getTokenResolves(t) ==
  /\ mpc[t] = "getToken"
  /\ \E req \in mpending :
       /\ req.task = t /\ req.kind = "token"
       /\ requestServiceMetadata(t, mpending \ {req}, [mhist[t] EXCEPT !.token = "tk"])
  /\ UNCHANGED <<refVars, calls, imageServerItem, objects, loadLog, sdmx, newModel, uiVars>>

\* getToken fails: load and forceLoadMetadata reject with its error
getTokenRejects(t) ==
  /\ mpc[t] = "getToken"
  /\ \E req \in mpending :
       /\ req.task = t /\ req.kind = "token"
       /\ mfinish(t, mpending \ {req}, mhist[t], [kind |-> "tokenError", title |-> None])
  /\ UNCHANGED <<refVars, calls, imageServerItem, objects, loadLog, sdmx, newModel, uiVars>>

\* the service metadata request comes back, lines 88-121
serviceMetadataAnswers(t) ==
  /\ mpc[t] = "serviceMetadata"
  /\ \E req \in mpending, outcome \in {Failed} \cup {Answered(j) : j \in ImageServerJsons} :
       /\ req.task = t /\ req.kind = "service"
       /\ LET serviceMetadata == getJson(outcome)
              error == serviceMetadataError(serviceMetadata)
              h == [mhist[t] EXCEPT !.service = <<outcome>>]
              id == Len(objects) + 1
              objs == Append(objects,
                             ImageServerStratum("item", serviceMetadata[1], h.token))
          IN IF error # None
             THEN /\ mfinish(t, mpending \ {req}, h,
                             [kind |-> "TerriaError", title |-> error])
                  /\ UNCHANGED <<imageServerItem, objects, loadLog>>
             ELSE IF imageServerItem.proj4ServiceBaseUrl
             THEN /\ objects' = objs
                  /\ mpending' = (mpending \ {req}) \cup
                                   {[task |-> t, kind |-> "projection", token |-> h.token]}
                  /\ mpc' = [mpc EXCEPT ![t] = "checkProjection"]
                  /\ mhist' = [mhist EXCEPT ![t] = [h EXCEPT !.stratum = id]]
                  /\ UNCHANGED <<imageServerItem, loadLog>>
             ELSE installImageServer(t, objs, id, mpending \ {req}, h)
  /\ UNCHANGED <<refVars, calls, sdmx, newModel, uiVars>>

\* Reproject.checkProjection returns: load returns the stratum
checkProjectionResolves(t) ==
  /\ mpc[t] = "checkProjection"
  /\ \E req \in mpending :
       /\ req.task = t /\ req.kind = "projection"
       /\ installImageServer(t, objects, mhist[t].stratum, mpending \ {req}, mhist[t])
  /\ UNCHANGED <<refVars, calls, sdmx, newModel, uiVars>>

\* Reproject.checkProjection fails: load rejects and the stratum is dropped
checkProjectionRejects(t) ==
  /\ mpc[t] = "checkProjection"
  /\ \E req \in mpending :
       /\ req.task = t /\ req.kind = "projection"
       /\ mfinish(t, mpending \ {req}, mhist[t],
                  [kind |-> "projectionError", title |-> None])
  /\ UNCHANGED <<refVars, calls, imageServerItem, objects, loadLog, sdmx, newModel, uiVars>>

\* legendMetadataAnswers in which a failed legend request makes
\* forceLoadMetadata reject
legendMetadataAnswers_propagates(t) ==
  /\ mpc[t] = "legendMetadata"
  /\ \E req \in mpending, outcome \in {Failed} \cup {Answered(j) : j \in LegendsJsons} :
       /\ req.task = t /\ req.kind = "legend"
       /\ LET legendMetadata == getJson(outcome)
              id == Len(objects) + 1
              objs == Append(objects, ImageServerLegendStratum("item", legendMetadata))
              mw == strataSet([item |-> imageServerItem, objects |-> objs], "ImageServerLegend", id)
              h == [mhist[t] EXCEPT
                      !.legend = <<outcome>>,
                      !.installed = Append(@, [stratumName |-> "ImageServerLegend",
                                               instance |-> id])]
          IN IF outcome.failed
             THEN /\ mfinish(t, mpending \ {req}, [mhist[t] EXCEPT !.legend = <<outcome>>],
                             [kind |-> "legendError", title |-> None])
                  /\ UNCHANGED <<imageServerItem, objects, loadLog>>
             ELSE /\ imageServerItem' = mw.item
                  /\ objects' = mw.objects
                  /\ loadLog' = Append(loadLog,
                                       LoadLogEntry("ImageServerLegend", id, t, h, legendMetadata))
                  /\ mfinish(t, mpending \ {req}, h, [kind |-> "ok", title |-> None])
  /\ UNCHANGED <<refVars, calls, sdmx, newModel, uiVars>>

\* the legend request comes back, lines 222-226 and 301-304
legendMetadataAnswers(t) ==
  /\ mpc[t] = "legendMetadata"
  /\ \E req \in mpending, outcome \in {Failed} \cup {Answered(j) : j \in LegendsJsons} :
       /\ req.task = t /\ req.kind = "legend"
       /\ LET legendMetadata == getJson(outcome)
              id == Len(objects) + 1
              objs == Append(objects, ImageServerLegendStratum("item", legendMetadata))
              mw == strataSet([item |-> imageServerItem, objects |-> objs], "ImageServerLegend", id)
              h == [mhist[t] EXCEPT
                      !.legend = <<outcome>>,
                      !.installed = Append(@, [stratumName |-> "ImageServerLegend",
                                               instance |-> id])]
          IN /\ imageServerItem' = mw.item
             /\ objects' = mw.objects
             /\ loadLog' = Append(loadLog,
                                  LoadLogEntry("ImageServerLegend", id, t, h, legendMetadata))
             /\ mfinish(t, mpending \ {req}, h, [kind |-> "ok", title |-> None])
  /\ UNCHANGED <<refVars, calls, sdmx, newModel, uiVars>>

(* ------------------------ SdmxJsonDataflowStratum ---------------------- *)
\* a ?? b, for string-valued fields and for optional structured values
CoalesceStr(a, b) == IF a # None THEN a ELSE b
CoalesceOpt(a, b) == IF a # Undef THEN a ELSE b

\* o?.field on an optional record, for the two kinds of field
FieldStr(o, field) == IF o = Undef THEN None ELSE o[1][field]
FieldOpt(o, field) == IF o = Undef THEN Undef ELSE o[1][field]

\* Array.prototype.find: the first element that satisfies Test, or undefined
Find(seq, Test(_)) ==
  LET hits == {i \in 1..Len(seq) : Test(seq[i])}
  IN IF hits = {} THEN Undef ELSE Some(seq[Min(hits)])

\* the URNs of the structure messages, and what parseSdmxUrn makes of them
UrnConceptArea == "urn:Concept=AG:CS(1.0).AREA"
UrnConceptFreq == "urn:Concept=AG:CS(1.0).FREQ"
UrnCodelistArea == "urn:Codelist=AG:CL_AREA(1.0)"
UrnCodelistFreq == "urn:Codelist=AG:CL_FREQ(1.0)"
UrnConceptUnit == "urn:Concept=AG:CS(1.0).UNIT_MEASURE"
UrnCodelistUnit == "urn:Codelist=AG:CL_UNIT(1.0)"
UrnConceptRegionType == "urn:Concept=AG:CS(1.0).REGIONTYPE"
UrnCodelistRegionType == "urn:Codelist=AG:CL_REGIONTYPE(1.0)"

parseSdmxUrn(urn) ==
  CASE urn = UrnConceptArea -> Some([resourceId |-> "CS", descendantIds |-> <<"AREA">>])
    [] urn = UrnConceptFreq -> Some([resourceId |-> "CS", descendantIds |-> <<"FREQ">>])
    [] urn = UrnCodelistArea -> Some([resourceId |-> "CL_AREA", descendantIds |-> << >>])
    [] urn = UrnCodelistFreq -> Some([resourceId |-> "CL_FREQ", descendantIds |-> << >>])
    [] urn = UrnConceptUnit ->
         Some([resourceId |-> "CS", descendantIds |-> <<"UNIT_MEASURE">>])
    [] urn = UrnCodelistUnit -> Some([resourceId |-> "CL_UNIT", descendantIds |-> << >>])
    [] urn = UrnConceptRegionType ->
         Some([resourceId |-> "CS", descendantIds |-> <<"REGIONTYPE">>])
    [] urn = UrnCodelistRegionType ->
         Some([resourceId |-> "CL_REGIONTYPE", descendantIds |-> << >>])
    [] OTHER -> Undef

\* a value that JSON gives where an array is expected
Arr(elems) == [isArray |-> TRUE, elems |-> elems]
NotArr == [isArray |-> FALSE, elems |-> << >>]

(* the parts of a structure message *)
Code(id, name) == [id |-> id, name |-> name]
Codelist(id, codes) == [id |-> id, codes |-> codes, name |-> None]
NamedCodelist(id, name, codes) == [id |-> id, codes |-> codes, name |-> name]
Concept(id, name) == [id |-> id, name |-> name]
ConceptScheme(id, concepts) == [id |-> id, concepts |-> concepts]
KeyValue(id, values) == [id |-> id, values |-> values]
CubeRegion(keyValues) == [keyValues |-> keyValues]
ContentConstraint(type, cubeRegions) == [type |-> type, cubeRegions |-> cubeRegions]
Dimension(id, type, conceptIdentity, enumeration, position) ==
  [id |-> id, type |-> type, conceptIdentity |-> conceptIdentity,
   localRepresentation |-> [enumeration |-> enumeration], position |-> position]
\* dataStructureComponents, with its dimensionList and the list's dimensions
DataStructure(id, dataStructureComponents) ==
  [id |-> id, dataStructureComponents |-> dataStructureComponents]
Components(dimensionList) == Some([dimensionList |-> dimensionList])
DimensionList(dimensions) == Some([dimensions |-> dimensions])
Dataflow(id, description) == [id |-> id, description |-> description]

\* one element of the modelOverrides trait
ModelOverride(id, name, options, selectedId, allowUndefined, disable) ==
  [id |-> id, name |-> name, options |-> options, selectedId |-> selectedId,
   allowUndefined |-> allowUndefined, disable |-> disable,
   type |-> None, regionType |-> None, regionTypeReplacements |-> Undef]

\* the structure message without its data, and with it
NoData == [data |-> Undef]
StructureMessage(dataflows, dataStructures, codelists, conceptSchemes, contentConstraints) ==
  [data |-> Some([dataflows |-> dataflows, dataStructures |-> dataStructures,
                  codelists |-> codelists, conceptSchemes |-> conceptSchemes,
                  contentConstraints |-> contentConstraints])]

LoadDataErrorTitle == "models.sdmxJsonDataflowStratum.loadDataErrorTitle"

\* load with the stratum built from the last dataflow and data structure
SdmxJsonDataflowStratumLoad_last(catalogItem, dataflowStructure) ==
  IF dataflowStructure.data = Undef
  THEN [error |-> LoadDataErrorTitle, stratum |-> Undef]
  ELSE LET data == dataflowStructure.data[1]
       IN IF ~data.dataflows.isArray \/ Len(data.dataflows.elems) = 0
          THEN [error |-> LoadDataErrorTitle, stratum |-> Undef]
          ELSE IF ~data.dataStructures.isArray \/ Len(data.dataStructures.elems) = 0
          THEN [error |-> LoadDataErrorTitle, stratum |-> Undef]
          ELSE [error |-> None,
                stratum |->
                  Some([catalogItem |-> catalogItem,
                        sdmxJsonDataflow |->
                          [dataflow |-> data.dataflows.elems[Len(data.dataflows.elems)],
                           dataStructure |->
                             data.dataStructures.elems[Len(data.dataStructures.elems)],
                           codelists |-> data.codelists,
                           conceptSchemes |-> data.conceptSchemes,
                           contentConstraints |-> data.contentConstraints]])]

\* SdmxJsonDataflowStratum.load, lines 80-120, on the structure message that
\* loadSdmxJsonStructure returned: the title of the TerriaError thrown, or the
\* stratum constructed
SdmxJsonDataflowStratumLoad(catalogItem, dataflowStructure) ==
  IF dataflowStructure.data = Undef
  THEN [error |-> LoadDataErrorTitle, stratum |-> Undef]
  ELSE LET data == dataflowStructure.data[1]
       IN IF ~data.dataflows.isArray \/ Len(data.dataflows.elems) = 0
          THEN [error |-> LoadDataErrorTitle, stratum |-> Undef]
          ELSE IF ~data.dataStructures.isArray \/ Len(data.dataStructures.elems) = 0
          THEN [error |-> LoadDataErrorTitle, stratum |-> Undef]
          ELSE [error |-> None,
                stratum |->
                  Some([catalogItem |-> catalogItem,
                        sdmxJsonDataflow |->
                          [dataflow |-> data.dataflows.elems[1],
                           dataStructure |-> data.dataStructures.elems[1],
                           codelists |-> data.codelists,
                           conceptSchemes |-> data.conceptSchemes,
                           contentConstraints |-> data.contentConstraints]])]

\* getConceptScheme
getConceptScheme(flow, id) ==
  IF flow.conceptSchemes = Undef THEN Undef
  ELSE Find(flow.conceptSchemes[1], LAMBDA c : c.id = id)

\* getConceptByUrn
getConceptByUrn(flow, urn) ==
  IF urn = None \/ urn = "" THEN Undef
  ELSE LET conceptUrn == parseSdmxUrn(urn)
       IN IF conceptUrn = Undef \/ Len(conceptUrn[1].descendantIds) = 0 THEN Undef
          ELSE LET resolvedConceptScheme == getConceptScheme(flow, conceptUrn[1].resourceId)
               IN IF resolvedConceptScheme = Undef THEN Undef
                  ELSE Find(resolvedConceptScheme[1].concepts,
                            LAMBDA d : d.id = conceptUrn[1].descendantIds[1])

\* getCodelistByUrn
getCodelistByUrn(flow, urn) ==
  IF urn = None \/ urn = "" THEN Undef
  ELSE LET codelistUrn == parseSdmxUrn(urn)
       IN IF codelistUrn = Undef \/ flow.codelists = Undef THEN Undef
          ELSE Find(flow.codelists[1], LAMBDA c : c.id = codelistUrn[1].resourceId)

\* the elements of a sequence
Range(seq) == {seq[i] : i \in 1..Len(seq)}

\* lines 181-183: the constraints of type Actual
actualContraints(flow) ==
  IF flow.contentConstraints = Undef THEN Undef
  ELSE Some(SelectSeq(flow.contentConstraints[1], LAMBDA c : c.type = "Actual"))

\* allowedOptionIds with the values of one cube region only where the code
\* takes the union over all of them
allowedOptionIds_firstRegion(contraints, dim) ==
  IF contraints = Undef THEN Undef
  ELSE Some(UNION { UNION { Range(kv.values) :
                            kv \in {k \in Range(constraint.cubeRegions[1].keyValues) :
                                      k.id = dim.id} } :
                    constraint \in {c \in Range(contraints[1]) : Len(c.cubeRegions) > 0} })

\* lines 213-229: the values the constraints list for the dimension
allowedOptionIds(contraints, dim) ==
  IF contraints = Undef THEN Undef
  ELSE Some(UNION { UNION { UNION { Range(kv.values) :
                                    kv \in {k \in Range(cubeRegion.keyValues) :
                                              k.id = dim.id} } :
                            cubeRegion \in Range(constraint.cubeRegions) } :
                    constraint \in Range(contraints[1]) })

\* lines 232-239: the codes of the codelist that the constraints allow
allowedCodes(codelist, allowed) ==
  IF codelist = Undef \/ codelist[1].codes = Undef THEN Undef
  ELSE IF allowed # Undef /\ allowed[1] # {}
  THEN Some(SelectSeq(codelist[1].codes[1], LAMBDA code : code.id \in allowed[1]))
  ELSE codelist[1].codes

\* resolveOptions that prefers the concept override's options
resolveOptions_conceptFirst(codelistOverride, conceptOverride, codes) ==
  LET overrideOptions == CoalesceOpt(FieldOpt(conceptOverride, "options"),
                                     FieldOpt(codelistOverride, "options"))
  IN IF overrideOptions # Undef /\ Len(overrideOptions[1]) > 0
     THEN overrideOptions
     ELSE codes

\* lines 242-251: the options of the overrides, or those made of the codes
resolveOptions(codelistOverride, conceptOverride, codes) ==
  LET overrideOptions == CoalesceOpt(FieldOpt(codelistOverride, "options"),
                                     FieldOpt(conceptOverride, "options"))
  IN IF overrideOptions # Undef /\ Len(overrideOptions[1]) > 0
     THEN overrideOptions
     ELSE codes

\* resolveSelectedId that takes the override's selectedId as it comes
resolveSelectedId_unchecked(options, allowUndefined, selectedIdOverride) ==
  IF selectedIdOverride # None THEN selectedIdOverride
  ELSE IF allowUndefined = Some(TRUE) THEN None
  ELSE options[1].id

\* lines 255-270: the default selection and the override's, when it is valid
resolveSelectedId(options, allowUndefined, selectedIdOverride) ==
  LET selectedId == IF allowUndefined = Some(TRUE) THEN None ELSE options[1].id
  IN IF /\ selectedIdOverride # None
        /\ \E option \in Range(options) : option.id = selectedIdOverride
     THEN selectedIdOverride
     ELSE selectedId

\* lines 188-193: the dimensions that are mapped
isEnumDimension(dim) ==
  /\ dim.id # None /\ dim.id # ""
  /\ dim.type = "Dimension"
  /\ dim.localRepresentation.enumeration # None
  /\ dim.localRepresentation.enumeration # ""

\* lines 194-287: what one dimension is mapped to: a dimension trait, nothing,
\* or the TypeError of options[0].id on an empty option list
mapDimension(flow, modelOverrides, dim) ==
  LET conceptOverride == Find(modelOverrides, LAMBDA concept : concept.id = dim.conceptIdentity)
      codelistOverride ==
        Find(modelOverrides, LAMBDA codelist : codelist.id = dim.localRepresentation.enumeration)
      concept == getConceptByUrn(flow, dim.conceptIdentity)
      codelist == getCodelistByUrn(flow, dim.localRepresentation.enumeration)
      codes == allowedCodes(codelist, allowedOptionIds(actualContraints(flow), dim))
      options == resolveOptions(codelistOverride, conceptOverride, codes)
      allowUndefined == CoalesceOpt(FieldOpt(codelistOverride, "allowUndefined"),
                                    FieldOpt(conceptOverride, "allowUndefined"))
      selectedIdOverride == CoalesceStr(FieldStr(codelistOverride, "selectedId"),
                                        FieldStr(conceptOverride, "selectedId"))
  IN IF options = Undef THEN [kind |-> "none", value |-> Undef]
     ELSE IF allowUndefined # Some(TRUE) /\ Len(options[1]) = 0
     THEN [kind |-> "TypeError", value |-> Undef]
     ELSE [kind |-> "dimension",
           value |->
             Some([id |-> dim.id,
                   name |-> CoalesceStr(FieldStr(codelistOverride, "name"),
                                        CoalesceStr(FieldStr(conceptOverride, "name"),
                                                    FieldStr(concept, "name"))),
                   options |-> options[1],
                   position |-> dim.position,
                   disable |-> CoalesceOpt(FieldOpt(codelistOverride, "disable"),
                                           FieldOpt(conceptOverride, "disable")),
                   allowUndefined |-> allowUndefined,
                   selectedId |->
                     resolveSelectedId(options[1], allowUndefined, selectedIdOverride)])]

\* SdmxJsonDataflowStratum.dimensions, for the stratum's dataflow and the
\* modelOverrides of the catalog item it is attached to
dimensions(flow, modelOverrides) ==
  LET components == flow.dataStructure.dataStructureComponents
  IN IF components = Undef THEN [kind |-> "undefined", value |-> << >>]
     ELSE IF components[1].dimensionList = Undef
     THEN [kind |-> "TypeError", value |-> << >>]
     ELSE LET dimensionList == components[1].dimensionList[1].dimensions
          IN IF dimensionList = Undef \/ Len(dimensionList[1]) = 0
             THEN [kind |-> "undefined", value |-> << >>]
             ELSE LET enum == SelectSeq(dimensionList[1], isEnumDimension)
                      mapped == [i \in 1..Len(enum) |->
                                   mapDimension(flow, modelOverrides, enum[i])]
                      kept == SelectSeq(mapped, LAMBDA m : m.kind = "dimension")
                  IN IF \E i \in 1..Len(mapped) : mapped[i].kind = "TypeError"
                     THEN [kind |-> "TypeError", value |-> << >>]
                     ELSE [kind |-> "ok",
                           value |-> [i \in 1..Len(kept) |-> kept[i].value[1]]]

(* the structure messages the SDMX server may answer with *)
CodeA1 == Code("a1", "A one")
CodeA2 == Code("a2", "A two")
CodeA3 == Code("a3", "A three")

CodelistSets ==
  { Undef,
    Some(<<Codelist("CL_AREA", Some(<<CodeA1, CodeA2, CodeA3>>))>>),
    Some(<<Codelist("CL_AREA", Some(<< >>))>>),
    Some(<<Codelist("CL_AREA", Undef)>>),
    Some(<<Codelist("CL_FREQ", Some(<<Code("A", "Annual")>>)),
           Codelist("CL_AREA", Some(<<CodeA2, CodeA1>>))>>) }

ConceptSchemes ==
  Some(<<ConceptScheme("CS", <<Concept("FREQ", "Frequency"), Concept("AREA", "Area")>>)>>)

DimArea == Dimension("AREA", "Dimension", UrnConceptArea, UrnCodelistArea, 1)
DimFreq == Dimension("FREQ", "Dimension", UrnConceptFreq, UrnCodelistFreq, 2)
DimTime == Dimension("TIME_PERIOD", "TimeDimension", None, None, 3)
DimNoId == Dimension(None, "Dimension", UrnConceptArea, UrnCodelistArea, 4)
DimNoEnumeration == Dimension("OBS", "Dimension", UrnConceptArea, None, 5)

DataStructures ==
  { DataStructure("ds", Undef),
    DataStructure("ds", Components(Undef)),
    DataStructure("ds", Components(DimensionList(Undef))),
    DataStructure("ds", Components(DimensionList(Some(<< >>)))),
    DataStructure("ds", Components(DimensionList(Some(<<DimArea>>)))),
    DataStructure("ds", Components(DimensionList(Some(<<DimTime, DimFreq, DimArea>>)))),
    DataStructure("ds", Components(DimensionList(Some(<<DimNoId, DimNoEnumeration,
                                                         DimArea>>)))) }

ConstraintSets ==
  { Undef,
    Some(<< >>),
    Some(<<ContentConstraint("Actual",
             <<CubeRegion(<<KeyValue("AREA", <<"a1", "a3">>)>>)>>)>>),
    Some(<<ContentConstraint("Allowed",
             <<CubeRegion(<<KeyValue("AREA", <<"a2">>)>>)>>)>>),
    Some(<<ContentConstraint("Actual", <<CubeRegion(<<KeyValue("AREA", <<"a1">>)>>)>>),
           ContentConstraint("Allowed", <<CubeRegion(<<KeyValue("AREA", <<"a3">>)>>)>>),
           ContentConstraint("Actual",
             <<CubeRegion(<<KeyValue("FREQ", <<"A">>)>>),
               CubeRegion(<<KeyValue("FREQ", <<"a3">>),
                            KeyValue("AREA", <<"a2", "a1">>)>>)>>)>>),
    Some(<<ContentConstraint("Actual",
             <<CubeRegion(<<KeyValue("AREA", <<"zz">>)>>)>>)>>) }

OtherStructure == DataStructure("other", Undef)

StructureMessages ==
  { NoData,
    StructureMessage(NotArr, Arr(<<OtherStructure>>), Undef, Undef, Undef),
    StructureMessage(Arr(<< >>), Arr(<<OtherStructure>>), Undef, Undef, Undef),
    StructureMessage(Arr(<<Dataflow("df1", "d1")>>), NotArr, Undef, Undef, Undef),
    StructureMessage(Arr(<<Dataflow("df1", "d1")>>), Arr(<< >>), Undef, Undef, Undef),
    StructureMessage(Arr(<<Dataflow("df2", "d2"), Dataflow("df1", "d1")>>),
                     Arr(<<DataStructure("ds", Components(DimensionList(Some(<<DimArea>>)))),
                           OtherStructure>>),
                     Some(<<Codelist("CL_AREA", Some(<<CodeA1, CodeA2, CodeA3>>))>>),
                     ConceptSchemes, Undef) }
  \cup
  { StructureMessage(Arr(<<Dataflow("df1", "d1")>>), Arr(<<ds>>), cl, ConceptSchemes, cc) :
      ds \in DataStructures, cl \in CodelistSets, cc \in ConstraintSets }

(* the modelOverrides a catalog item may be configured with *)
OptionsX == Some(<<Code("x1", "X one"), Code("x2", "X two")>>)
OptionsA == Some(<<Code("a3", "Three"), Code("a1", "One")>>)

ConceptOverrides ==
  { ModelOverride(UrnConceptArea, "concept name", OptionsX, "x2", Undef, Some(TRUE)),
    ModelOverride(UrnConceptArea, None, Undef, "a3", Some(TRUE), Undef),
    ModelOverride(UrnConceptArea, "concept name", Undef, "zz", Some(FALSE), Some(FALSE)) }

CodelistOverrides ==
  { ModelOverride(UrnCodelistArea, "codelist name", Some(<< >>), None, Undef, Some(FALSE)),
    ModelOverride(UrnCodelistArea, None, OptionsA, "zz", Some(FALSE), Undef),
    ModelOverride(UrnCodelistArea, None, Undef, "a2", Undef, Undef),
    ModelOverride(UrnCodelistArea, None, Undef, None, Some(TRUE), Undef) }

ModelOverrideLists ==
  {<< >>}
  \cup {<<o>> : o \in ConceptOverrides \cup CodelistOverrides}
  \cup {<<co, cl>> : co \in ConceptOverrides, cl \in CodelistOverrides}

\* the SdmxJsonCatalogItem before its stratum is loaded
NewSdmxItem(modelOverrides) ==
  [catalogItems |-> [m \in {"item"} |-> [modelOverrides |-> modelOverrides]],
   stage |-> "idle", answer |-> << >>, error |-> None, stratum |-> Undef,
   read |-> << >>, unitMeasure |-> << >>, dimensionColumns |-> << >>, styles |-> << >>]

\* the catalog item asks for its stratum: load requests the structure
sdmxLoad ==
  /\ sdmx.stage = "idle"
  /\ sdmx' = [sdmx EXCEPT !.stage = "loadSdmxJsonStructure"]
  /\ UNCHANGED <<refVars, calls, imageVars, newModel, uiVars>>

\* loadSdmxJsonStructure answers with a structure message
loadSdmxJsonStructureResolves ==
  /\ sdmx.stage = "loadSdmxJsonStructure"
  /\ \E dataflowStructure \in StructureMessages :
       LET out == SdmxJsonDataflowStratumLoad("item", dataflowStructure)
       IN sdmx' = [sdmx EXCEPT !.stage = IF out.error # None THEN "failed" ELSE "loaded",
                               !.answer = <<dataflowStructure>>,
                               !.error = out.error,
                               !.stratum = out.stratum]
  /\ UNCHANGED <<refVars, calls, imageVars, newModel, uiVars>>

\* loadSdmxJsonStructure fails: load rejects with its error
loadSdmxJsonStructureRejects ==
  /\ sdmx.stage = "loadSdmxJsonStructure"
  /\ sdmx' = [sdmx EXCEPT !.stage = "failed", !.error = "loadSdmxJsonStructure"]
  /\ UNCHANGED <<refVars, calls, imageVars, newModel, uiVars>>

\* the dimensions trait of the loaded stratum is read
readDimensions ==
  /\ sdmx.stage = "loaded"
  /\ sdmx.read = << >>
  /\ sdmx' = [sdmx EXCEPT
                !.read = <<dimensions(sdmx.stratum[1].sdmxJsonDataflow,
                                      sdmx.catalogItems[sdmx.stratum[1].catalogItem]
                                        .modelOverrides)>>]
  /\ UNCHANGED <<refVars, calls, imageVars, newModel, uiVars>>

(* ---------------------------- specifications --------------------------- *)
\* the reference as its constructor leaves it, configured at one stratum
NewReference(formats, uniqueId, stratumName) ==
  [uniqueId |-> uniqueId,
   supportedFormats |-> formats,
   strata |-> [definition |-> IF stratumName = "definition" THEN ConfigObj ELSE None,
               user |-> IF stratumName = "user" THEN ConfigObj ELSE None,
               arcGisPortalDataset |-> 0],
   arcgisItem |-> Undef,
   arcgisPortalCatalogGroup |-> Undef,
   supportedFormat |-> Undef,
   portalRootUrl |-> None]

\* the image server item as its constructor leaves it
NewImageServerItem(url, tokenUrl, proj4ServiceBaseUrl) ==
  [url |-> url, tokenUrl |-> tokenUrl, proj4ServiceBaseUrl |-> proj4ServiceBaseUrl,
   strata |-> NoStrata]

(* --------------------- the stratum's table traits ---------------------- *)
\* an attribute of the data structure
Attribute(id, conceptIdentity, enumeration) ==
  [id |-> id, conceptIdentity |-> conceptIdentity,
   localRepresentation |-> [enumeration |-> enumeration]]

\* dataStructureComponents with its dimensions, time dimensions and attributes
TableComponents(dimensionArray, timeDimensionArray, attributeArray) ==
  Some([dimensionList |-> Some([dimensions |-> dimensionArray,
                                timeDimensions |-> timeDimensionArray]),
        attributeList |-> Some([attributes |-> attributeArray]),
        measureList |-> [primaryMeasure |-> [id |-> "OBS_VALUE", conceptIdentity |-> None]]])

\* a modelOverride that has a type
TypedOverride(id, type) ==
  [ModelOverride(id, None, Undef, None, Undef, Undef) EXCEPT !.type = type]

\* TableMixin.findColumnByName: the unique values of the column, if there is one
findColumnByName(item, name) ==
  IF name \in DOMAIN item.columns THEN item.columns[name] ELSE Undef

\* getDimensionWithConceptOrCodelist
getDimensionWithConceptOrCodelist(flow, id) ==
  LET components == flow.dataStructure.dataStructureComponents
  IN IF components = Undef \/ components[1].dimensionList = Undef
        \/ components[1].dimensionList[1].dimensions = Undef
     THEN Undef
     ELSE Find(components[1].dimensionList[1].dimensions[1],
               LAMBDA dim : dim.conceptIdentity = id
                            \/ dim.localRepresentation.enumeration = id)

\* getAttributionWithConceptOrCodelist
getAttributionWithConceptOrCodelist(flow, id) ==
  LET components == flow.dataStructure.dataStructureComponents
  IN IF components = Undef \/ components[1].attributeList = Undef
        \/ components[1].attributeList[1].attributes = Undef
     THEN Undef
     ELSE Find(components[1].attributeList[1].attributes[1],
               LAMBDA attr : attr.conceptIdentity = id
                             \/ attr.localRepresentation.enumeration = id)

\* catalogItem.dimensions: the trait resolves to the stratum's dimensions
itemDimensions(flow, item) == dimensions(flow, item.modelOverrides)

\* getDimensionsWithOverrideType: the item's dimensions that an override of
\* the type names by concept or codelist, in the order of the overrides
dimensionsWithOverrideType(flow, item, type, dims) ==
  LET overrides == SelectSeq(item.modelOverrides,
                             LAMBDA override : override.type = type /\ override.id # None)
      found == [i \in 1..Len(overrides) |->
                  LET dim == getDimensionWithConceptOrCodelist(flow, overrides[i].id)
                  IN IF dims.kind # "ok" \/ dim = Undef THEN Undef
                     ELSE Find(dims.value, LAMBDA d : d.id = dim[1].id)]
      kept == SelectSeq(found, LAMBDA f : f # Undef)
  IN [kind |-> IF Len(overrides) > 0 /\ dims.kind = "TypeError" THEN "TypeError" ELSE "ok",
      value |-> [i \in 1..Len(kept) |-> kept[i][1]]]

\* getDimensionsWithOverrideType, over catalogItem.dimensions
getDimensionsWithOverrideType(flow, item, type) ==
  dimensionsWithOverrideType(flow, item, type, itemDimensions(flow, item))

\* lines 346-366 with a column of several values contributing its first
unitMeasureOf_firstValue(flow, item, override) ==
  LET dimOrAttr == CoalesceOpt(getAttributionWithConceptOrCodelist(flow, override.id),
                               getDimensionWithConceptOrCodelist(flow, override.id))
      column == IF dimOrAttr # Undef /\ dimOrAttr[1].id # None
                THEN findColumnByName(item, dimOrAttr[1].id) ELSE Undef
  IN IF column # Undef /\ Len(column[1]) >= 1
     THEN LET codelist == getCodelistByUrn(flow, dimOrAttr[1].localRepresentation.enumeration)
              value == column[1][1]
              code == IF codelist = Undef \/ codelist[1].codes = Undef THEN Undef
                      ELSE Find(codelist[1].codes[1], LAMBDA c : c.id = value)
          IN Some(CoalesceStr(FieldStr(code, "name"), value))
     ELSE Undef

\* lines 346-366: what one override of type unit-measure contributes
unitMeasureOf(flow, item, override) ==
  LET dimOrAttr == CoalesceOpt(getAttributionWithConceptOrCodelist(flow, override.id),
                               getDimensionWithConceptOrCodelist(flow, override.id))
      column == IF dimOrAttr # Undef /\ dimOrAttr[1].id # None
                THEN findColumnByName(item, dimOrAttr[1].id) ELSE Undef
  IN IF column # Undef /\ Len(column[1]) = 1
     THEN LET codelist == getCodelistByUrn(flow, dimOrAttr[1].localRepresentation.enumeration)
              value == column[1][1]
              code == IF codelist = Undef \/ codelist[1].codes = Undef THEN Undef
                      ELSE Find(codelist[1].codes[1], LAMBDA c : c.id = value)
          IN Some(CoalesceStr(FieldStr(code, "name"), value))
     ELSE Undef

\* Array.prototype.join(", "), the string held as its pieces
RECURSIVE join(_)
join(strings) ==
  IF Len(strings) = 0 THEN << >>
  ELSE IF Len(strings) = 1 THEN <<strings[1]>>
  ELSE <<strings[1], ", ">> \o join(Tail(strings))

\* lines 368-378: the name of the selected option of the frequency dimension,
\* or the dimension's id
frequencyOf(frequencyDim) ==
  LET option == IF frequencyDim = Undef THEN Undef
                ELSE Find(frequencyDim[1].options,
                          LAMBDA o : o.id = frequencyDim[1].selectedId)
  IN CoalesceStr(FieldStr(option, "name"), FieldStr(frequencyDim, "id"))

\* line 380: the units, and the frequency in brackets if there is one
withFrequency(units, frequency) ==
  units \o (IF frequency # None /\ frequency # "" THEN <<" (", frequency, ")">> ELSE << >>)

\* unitMeasure, given the dimensions that are tagged frequency
unitMeasureWith(flow, item, frequencyDims) ==
  LET overrides == SelectSeq(item.modelOverrides,
                             LAMBDA override : override.type = "unit-measure"
                                               /\ override.id # None)
      mapped == [i \in 1..Len(overrides) |-> unitMeasureOf(flow, item, overrides[i])]
      defined == SelectSeq(mapped, LAMBDA m : m # Undef)
  IN IF frequencyDims.kind = "TypeError" THEN [kind |-> "TypeError", value |-> << >>]
     ELSE [kind |-> "ok",
           value |->
             withFrequency(join([i \in 1..Len(defined) |-> defined[i][1]]),
                           frequencyOf(Find(frequencyDims.value,
                                            LAMBDA dim : dim.selectedId # None)))]

\* SdmxJsonDataflowStratum.unitMeasure
unitMeasure(flow, item) ==
  unitMeasureWith(flow, item, getDimensionsWithOverrideType(flow, item, "frequency"))

\* the unitMeasure trait of the loaded stratum is read
readUnitMeasure ==
  /\ sdmx # Undef
  /\ sdmx.stage = "loaded"
  /\ sdmx.unitMeasure = << >>
  /\ sdmx' = [sdmx EXCEPT
                !.unitMeasure = <<unitMeasure(sdmx.stratum[1].sdmxJsonDataflow,
                                              sdmx.catalogItems[sdmx.stratum[1].catalogItem])>>]
  /\ UNCHANGED <<refVars, calls, imageVars, newModel, uiVars>>

\* the region type a region provider has for a name it knows
RegionTypeOf(alias) ==
  CASE alias = "GEO" -> "geo"
    [] alias = "Area list" -> "area-list"
    [] alias = "CL_AREA" -> "cl-area"
    [] alias = "Area" -> "area"
    [] OTHER -> alias

\* regionProviderList.getRegionDetails([regionType]): the providers that
\* know the name, as the region types they stand for
getRegionDetails(regionProviderList, regionType) ==
  IF regionType \in regionProviderList THEN <<RegionTypeOf(regionType)>> ELSE << >>

\* matchRegionType
matchRegionType(item, regionType) ==
  IF regionType = None THEN None
  ELSE LET matchingRegionProviders == getRegionDetails(item.regionProviderList, regionType)
       IN IF Len(matchingRegionProviders) > 0 THEN matchingRegionProviders[1] ELSE None

\* one element of regionTypeReplacements
Replacement(find, replace) == [find |-> find, replace |-> replace]

\* lines 513-524: the replacement the overrides have for a region type
replaceRegionType(codelistOverride, conceptOverride, regionType) ==
  IF FieldStr(codelistOverride, "type") = "region"
     \/ FieldStr(conceptOverride, "type") = "region"
  THEN LET replacements == CoalesceOpt(FieldOpt(codelistOverride, "regionTypeReplacements"),
                                       FieldOpt(conceptOverride, "regionTypeReplacements"))
           replacement == IF replacements = Undef THEN Undef
                          ELSE Find(replacements[1], LAMBDA r : r.find = regionType)
       IN CoalesceStr(FieldStr(replacement, "replace"), regionType)
  ELSE regionType

\* a column of TableColumnTraits
TableColumn(name, title, type, regionType) ==
  [name |-> name, title |-> title, type |-> type, regionType |-> regionType]

\* dimensionColumn that tries the dimension id before the overrides
dimensionColumn_idFirst(flow, item, dims, dim) ==
  LET concept == getConceptByUrn(flow, dim.conceptIdentity)
      codelist == getCodelistByUrn(flow, dim.localRepresentation.enumeration)
      conceptOverride ==
        Find(item.modelOverrides, LAMBDA o : o.id = dim.conceptIdentity)
      codelistOverride ==
        Find(item.modelOverrides, LAMBDA o : o.id = dim.localRepresentation.enumeration)
      isRegion == \/ FieldStr(codelistOverride, "type") = "region"
                  \/ FieldStr(conceptOverride, "type") = "region"
      fromOverrides ==
        CoalesceStr(matchRegionType(item, FieldStr(codelistOverride, "regionType")),
                    matchRegionType(item, FieldStr(conceptOverride, "regionType")))
      fromStructure ==
        CoalesceStr(matchRegionType(item, FieldStr(codelist, "name")),
        CoalesceStr(matchRegionType(item, FieldStr(codelist, "id")),
        CoalesceStr(matchRegionType(item, FieldStr(concept, "name")),
                    matchRegionType(item, FieldStr(concept, "id")))))
      regionTypeDim ==
        Find(dimensionsWithOverrideType(flow, item, "region-type", dims).value,
             LAMBDA d : d.selectedId # None)
      fromDimension ==
        IF isRegion THEN matchRegionType(item, FieldStr(regionTypeDim, "selectedId"))
        ELSE None
      matched == CoalesceStr(matchRegionType(item, dim.id),
                 CoalesceStr(fromOverrides, CoalesceStr(fromDimension, fromStructure)))
      regionType == replaceRegionType(codelistOverride, conceptOverride, matched)
      disabled == Find(dims.value, LAMBDA d : d.id = dim.id)
  IN IF FieldOpt(disabled, "disable") = Some(TRUE)
     THEN TableColumn(dim.id, None, "hidden", None)
     ELSE TableColumn(dim.id, FieldStr(concept, "name"),
                      IF regionType # None THEN "region" ELSE "hidden", regionType)

\* lines 447-532: the column of one dimension, given this.dimensions, which
\* catalogItem.dimensions resolves to as well
dimensionColumn(flow, item, dims, dim) ==
  LET concept == getConceptByUrn(flow, dim.conceptIdentity)
      codelist == getCodelistByUrn(flow, dim.localRepresentation.enumeration)
      conceptOverride ==
        Find(item.modelOverrides, LAMBDA o : o.id = dim.conceptIdentity)
      codelistOverride ==
        Find(item.modelOverrides, LAMBDA o : o.id = dim.localRepresentation.enumeration)
      isRegion == \/ FieldStr(codelistOverride, "type") = "region"
                  \/ FieldStr(conceptOverride, "type") = "region"
      fromOverrides ==
        CoalesceStr(matchRegionType(item, FieldStr(codelistOverride, "regionType")),
                    matchRegionType(item, FieldStr(conceptOverride, "regionType")))
      regionTypeDim ==
        Find(dimensionsWithOverrideType(flow, item, "region-type", dims).value,
             LAMBDA d : d.selectedId # None)
      fromDimension ==
        IF fromOverrides = None /\ isRegion
        THEN matchRegionType(item, FieldStr(regionTypeDim, "selectedId"))
        ELSE fromOverrides
      matched ==
        IF fromDimension # None THEN fromDimension
        ELSE CoalesceStr(matchRegionType(item, dim.id),
             CoalesceStr(matchRegionType(item, FieldStr(codelist, "name")),
             CoalesceStr(matchRegionType(item, FieldStr(codelist, "id")),
             CoalesceStr(matchRegionType(item, FieldStr(concept, "name")),
                         matchRegionType(item, FieldStr(concept, "id"))))))
      regionType == replaceRegionType(codelistOverride, conceptOverride, matched)
      disabled == Find(dims.value, LAMBDA d : d.id = dim.id)
  IN IF FieldOpt(disabled, "disable") = Some(TRUE)
     THEN TableColumn(dim.id, None, "hidden", None)
     ELSE TableColumn(dim.id, FieldStr(concept, "name"),
                      IF regionType # None THEN "region" ELSE "hidden", regionType)

\* lines 437-532 given this.dimensions, the reading of which may throw
dimensionColumnsWith(flow, item, dims) ==
  LET components == flow.dataStructure.dataStructureComponents
      dimensionsList == IF components = Undef THEN Undef ELSE components[1].dimensionList
      list == IF dimensionsList = Undef THEN Undef ELSE dimensionsList[1].dimensions
  IN IF list = Undef THEN [kind |-> "ok", value |-> << >>]
     ELSE LET withId == SelectSeq(list[1], LAMBDA dim : dim.id # None)
          IN IF Len(withId) > 0 /\ dims.kind = "TypeError"
             THEN [kind |-> "TypeError", value |-> << >>]
             ELSE [kind |-> "ok",
                   value |-> [i \in 1..Len(withId) |->
                                dimensionColumn(flow, item, dims, withId[i])]]

\* SdmxJsonDataflowStratum.dimensionColumns
dimensionColumns(flow, item) ==
  dimensionColumnsWith(flow, item, dimensions(flow, item.modelOverrides))

\* the dimensionColumns trait of the loaded stratum is read
readDimensionColumns ==
  /\ sdmx # Undef
  /\ sdmx.stage = "loaded"
  /\ sdmx.dimensionColumns = << >>
  /\ sdmx' = [sdmx EXCEPT
                !.dimensionColumns =
                   <<dimensionColumns(sdmx.stratum[1].sdmxJsonDataflow,
                                      sdmx.catalogItems[sdmx.stratum[1].catalogItem])>>]
  /\ UNCHANGED <<refVars, calls, imageVars, newModel, uiVars>>

\* SdmxJsonDataflowStratum.primaryMeasureColumn; measureList is read
\* without a guard
primaryMeasureColumn(flow, item) ==
  LET components == flow.dataStructure.dataStructureComponents
      unitMultipliers ==
        SelectSeq([i \in 1..Len(item.modelOverrides) |->
                     LET override == item.modelOverrides[i]
                         dimOrAttr ==
                           CoalesceOpt(getAttributionWithConceptOrCodelist(flow, override.id),
                                       getDimensionWithConceptOrCodelist(flow, override.id))
                     IN IF override.type = "unit-multiplier" /\ override.id # None
                        THEN FieldStr(dimOrAttr, "id") ELSE None],
                  LAMBDA id : id # None)
      unitMultiplier == IF Len(unitMultipliers) > 0 THEN unitMultipliers[1] ELSE None
  IN IF components # Undef /\ "measureList" \notin DOMAIN components[1]
     THEN [kind |-> "TypeError", value |-> Undef]
     ELSE LET primaryMeasure ==
                IF components = Undef THEN Undef
                ELSE Some(components[1].measureList.primaryMeasure)
          IN [kind |-> "ok",
              value |->
                Some([name |-> FieldStr(primaryMeasure, "id"),
                      title |-> FieldStr(getConceptByUrn(flow,
                                           FieldStr(primaryMeasure, "conceptIdentity")), "name"),
                      transformation |->
                        IF unitMultiplier # None /\ unitMultiplier # ""
                        THEN Some([expression |-> <<"x*(10^", unitMultiplier, ")">>,
                                   dependencies |-> <<unitMultiplier>>])
                        ELSE Undef])]

\* SdmxJsonDataflowStratum.timeColumns
timeColumns(flow) ==
  LET components == flow.dataStructure.dataStructureComponents
      timeDimensions ==
        IF components = Undef THEN Undef
        ELSE IF "timeDimensions" \notin DOMAIN components[1].dimensionList[1] THEN Undef
        ELSE components[1].dimensionList[1].timeDimensions
  IN IF timeDimensions = Undef THEN << >>
     ELSE [i \in 1..Len(timeDimensions[1]) |->
             LET dim == timeDimensions[1][i]
                 concept == getConceptByUrn(flow, dim.conceptIdentity)
             IN [name |-> dim.id, title |-> CoalesceStr(FieldStr(concept, "name"), dim.id),
                 type |-> "time"]]

\* lines 598-630 given the columns and the unit; timeColumns[0].name is read
\* whether or not there is a time column
stylesWith(primary, unit, times, columns) ==
  LET regions == SelectSeq(columns.value, LAMBDA col : col.type = "region")
  IN IF primary.kind = "TypeError" \/ unit.kind = "TypeError" \/ Len(times) = 0
        \/ columns.kind = "TypeError"
     THEN [kind |-> "TypeError", value |-> << >>]
     ELSE [kind |-> "ok",
           value |->
             << [id |-> primary.value[1].name,
                 color |-> [legend |-> [title |-> unit.value]],
                 time |-> [timeColumn |-> times[1].name],
                 chart |->
                   IF Len(times) > 0 /\ Len(regions) = 0
                   THEN Some([xAxisColumn |-> times[1].name,
                              lines |-> << [name |-> unit.value,
                                            yAxisColumn |-> primary.value[1].name] >>])
                   ELSE Undef,
                 regionColumn |-> IF Len(regions) = 0 THEN None ELSE regions[1].name] >>]

\* SdmxJsonDataflowStratum.styles
styles(flow, item) ==
  stylesWith(primaryMeasureColumn(flow, item), unitMeasure(flow, item), timeColumns(flow),
             dimensionColumns(flow, item))

\* the styles trait of the loaded stratum is read
readStyles ==
  /\ sdmx # Undef
  /\ sdmx.stage = "loaded"
  /\ sdmx.styles = << >>
  /\ sdmx' = [sdmx EXCEPT
                !.styles = <<styles(sdmx.stratum[1].sdmxJsonDataflow,
                                    sdmx.catalogItems[sdmx.stratum[1].catalogItem])>>]
  /\ UNCHANGED <<refVars, calls, imageVars, newModel, uiVars>>

(* ------------------------ duplicateLoadableStratum --------------------- *)
\* new ArcGisPortalItemStratum(reference, group): the stratum keeps the
\* reference it reads its item from
ArcGisPortalItemStratum(arcgisPortalItemReference, arcgisPortalCatalogGroup) ==
  [stratumName |-> "arcGisPortalDataset",
   arcgisPortalItemReference |-> arcgisPortalItemReference,
   arcgisPortalCatalogGroup |-> arcgisPortalCatalogGroup]

\* the stratum the reference holds under arcGisPortalDataset, as an object
loadedPortalStratum(r) == ArcGisPortalItemStratum("this", r.arcgisPortalCatalogGroup)

\* ArcGisPortalItemStratum.duplicateLoadableStratum: newModel is not used
ArcGisPortalItemStratum_duplicateLoadableStratum(stratum, model) ==
  ArcGisPortalItemStratum(stratum.arcgisPortalItemReference,
                          stratum.arcgisPortalCatalogGroup)

\* ImageServerStratum.duplicateLoadableStratum without the token
ImageServerStratum_duplicateLoadableStratum_noToken(stratum, model) ==
  ImageServerStratum(model, stratum.imageServer[1], None)

\* ImageServerStratum.duplicateLoadableStratum
ImageServerStratum_duplicateLoadableStratum(stratum, model) ==
  ImageServerStratum(model, stratum.imageServer[1], stratum.token)

\* ImageServerLegendStratum.duplicateLoadableStratum
ImageServerLegendStratum_duplicateLoadableStratum(stratum, model) ==
  ImageServerLegendStratum(model, stratum.legends)

\* SdmxJsonDataflowStratum.duplicateLoadableStratum
SdmxJsonDataflowStratum_duplicateLoadableStratum(stratum, model) ==
  [catalogItem |-> model, sdmxJsonDataflow |-> stratum.sdmxJsonDataflow]

\* ArcGisPortalItemStratum.portalItemUrl
portalItemUrl(r) ==
  IF r.arcgisItem = Undef \/ r.portalRootUrl = None THEN Undef
  ELSE Some(<<r.portalRootUrl, "/home/item.html", "?id=", r.arcgisItem[1].id>>)

\* a reference that is not the one the stratum was loaded for
OtherReference == NewReference(defaultSupportedFormats, "other", "definition")

\* the trait values an ArcGisPortalItemStratum defines: its getters read the
\* reference the stratum was constructed with
portalStratumTraits(stratum) ==
  LET r == IF stratum.arcgisPortalItemReference = "this" THEN ref ELSE OtherReference
  IN [url |-> stratumUrl(r), portalItemUrl |-> portalItemUrl(r)]

\* the trait values an SdmxJsonDataflowStratum defines: its getters read the
\* modelOverrides of the catalog item the stratum was constructed with
sdmxStratumTraits(stratum) ==
  [dimensions |-> dimensions(stratum.sdmxJsonDataflow,
                             sdmx.catalogItems[stratum.catalogItem].modelOverrides)]

\* the requests in flight for the reference, the image server item and the
\* SDMX item
RequestsInFlight ==
  [portal |-> pending, image |-> mpending,
   sdmx |-> IF sdmx = Undef THEN FALSE ELSE sdmx.stage = "loadSdmxJsonStructure"]

\* the duplicate made of a loaded stratum, and the requests around its making
Duplicated(original, duplicate, before, after) ==
  Some([original |-> original, duplicate |-> duplicate,
        inFlightBefore |-> before, inFlightAfter |-> after])

\* the reference's loaded stratum is duplicated for a new model
duplicatePortalItemStratum ==
  /\ newModel = Undef
  /\ ref.strata.arcGisPortalDataset # 0
  /\ UNCHANGED <<refVars, calls, imageVars, sdmx, uiVars>>
  /\ newModel' =
       Duplicated(loadedPortalStratum(ref),
                  ArcGisPortalItemStratum_duplicateLoadableStratum(
                    loadedPortalStratum(ref), "newModel"),
                  RequestsInFlight, RequestsInFlight')

\* the item's ImageServer stratum is duplicated for a new model
duplicateImageServerStratum ==
  /\ newModel = Undef
  /\ imageServerItem.strata.ImageServer # 0
  /\ UNCHANGED <<refVars, calls, imageVars, sdmx, uiVars>>
  /\ LET stratum == objects[imageServerItem.strata.ImageServer]
     IN newModel' =
          Duplicated(stratum,
                     ImageServerStratum_duplicateLoadableStratum(stratum, "newModel"),
                     RequestsInFlight, RequestsInFlight')

\* the item's ImageServerLegend stratum is duplicated for a new model
duplicateImageServerLegendStratum ==
  /\ newModel = Undef
  /\ imageServerItem.strata.ImageServerLegend # 0
  /\ UNCHANGED <<refVars, calls, imageVars, sdmx, uiVars>>
  /\ LET stratum == objects[imageServerItem.strata.ImageServerLegend]
     IN newModel' =
          Duplicated(stratum,
                     ImageServerLegendStratum_duplicateLoadableStratum(stratum, "newModel"),
                     RequestsInFlight, RequestsInFlight')

\* the SDMX item's loaded stratum is duplicated for a new model, which
\* resolves modelOverrides of its own
duplicateSdmxJsonDataflowStratum ==
  /\ newModel = Undef
  /\ sdmx # Undef
  /\ sdmx.stage = "loaded"
  /\ \E modelOverrides \in ModelOverrideLists :
       sdmx' = [sdmx EXCEPT
                  !.catalogItems =
                    [m \in {"item", "newModel"} |->
                       IF m = "item" THEN sdmx.catalogItems["item"]
                       ELSE [modelOverrides |-> modelOverrides]]]
  /\ UNCHANGED <<refVars, calls, imageVars, uiVars>>
  /\ newModel' =
       Duplicated(sdmx.stratum[1],
                  SdmxJsonDataflowStratum_duplicateLoadableStratum(
                    sdmx.stratum[1], "newModel"),
                  RequestsInFlight, RequestsInFlight')

InitImageRest ==
  /\ objects = << >>
  /\ mpc = [t \in MTasks |-> "idle"]
  /\ mpending = {}
  /\ mhist = [t \in MTasks |-> NoMHist]
  /\ loadLog = << >>

\* no image server item is loaded
InitImageIdle ==
  /\ imageServerItem = NewImageServerItem(None, None, FALSE)
  /\ InitImageRest

\* no SDMX item is loaded
InitSdmxIdle == sdmx = Undef

\* no stratum has been duplicated
InitNoDuplicate == newModel = Undef

\* no WMS group, no story panel and no diff tool exist
InitWmsIdle == wms = Undef
InitStoryIdle == story = Undef
InitDiffIdle == diff = Undef

InitRefCounters ==
  /\ allocated = 0
  /\ pc = [t \in Tasks |-> "idle"]
  /\ pending = {}
  /\ result = [t \in Tasks |-> NoResult]
  /\ hist = [t \in Tasks |-> NoHist]
  /\ calls = 0
  /\ changes = 0
  /\ firstOutcome = Undef

InitRefRest ==
  /\ InitNoDuplicate
  /\ InitWmsIdle
  /\ InitStoryIdle
  /\ InitDiffIdle
  /\ InitRefCounters

InitRest ==
  /\ InitRefRest
  /\ InitImageIdle
  /\ InitSdmxIdle

\* how a catalog declares the reference: its uniqueId, the stratum that holds
\* its traits, its itemProperties
Declarations ==
  { [uniqueId |-> "ref", stratum |-> "definition", itemProperties |-> Undef],
    [uniqueId |-> "ref", stratum |-> "definition",
     itemProperties |-> Some({<<"opacity", "o1">>, <<"url", "u1">>})],
    [uniqueId |-> "ref", stratum |-> "user",
     itemProperties |-> Some({<<"opacity", "o1">>})],
    [uniqueId |-> None, stratum |-> "definition", itemProperties |-> Undef] }

Init ==
  /\ \E formats \in FormatLists, d \in Declarations, id \in ItemIds :
       /\ ref = NewReference(formats, d.uniqueId, d.stratum)
       /\ heap = [o \in {ConfigObj} |->
                   [url |-> "p1", itemId |-> id, itemProperties |-> d.itemProperties]]
  /\ InitRest

\* a fresh reference that a catalog group may create a member from
Fresh == calls = 0 /\ ref.arcgisItem = Undef

\* invocations one after the other
Next ==
  \/ Fresh /\ createMemberFromDataset(RefTraits.itemId)
  \/ (\A t \in Tasks : Idle(t)) /\ forceLoadReference("a")
  \/ \E t \in Tasks : loadPortalItemResolves(t)
  \/ \E t \in Tasks : loadPortalItemRejects(t)
  \/ \E t \in Tasks : loadAdditionalPortalInfoResolves(t)
  \/ \E t \in Tasks : loadAdditionalPortalInfoRejects(t)
  \/ setIdentity
  \/ setCatalogGroupUrl

Spec == Init /\ [][Next]_vars

\* invocations that may overlap
NextOverlap ==
  \/ Fresh /\ createMemberFromDataset(RefTraits.itemId)
  \/ \E t \in Tasks : forceLoadReference(t)
  \/ \E t \in Tasks : loadPortalItemResolves(t)
  \/ \E t \in Tasks : loadPortalItemRejects(t)
  \/ \E t \in Tasks : loadAdditionalPortalInfoResolves(t)
  \/ \E t \in Tasks : loadAdditionalPortalInfoRejects(t)

InitOverlap ==
  /\ ref = NewReference(defaultSupportedFormats, "ref", "definition")
  /\ \E id \in ItemIds :
       heap = [o \in {ConfigObj} |-> [url |-> "p1", itemId |-> id, itemProperties |-> Undef]]
  /\ InitRest

SpecOverlap == InitOverlap /\ [][NextOverlap]_vars

\* the matcher alone, on every rule list and every item
InitMatch ==
  /\ \E formats \in RuleLists : ref = NewReference(formats, "ref", "definition")
  /\ heap = [o \in {ConfigObj} |-> [url |-> "p1", itemId |-> "csv", itemProperties |-> Undef]]
  /\ InitRest

NextMatch == \E id \in ItemIds : createMemberFromDataset(id)

SpecMatch == InitMatch /\ [][NextMatch]_vars

\* a reference and an image server item, loaded one invocation after the other
InitLoads ==
  /\ ref = NewReference(defaultSupportedFormats, "ref", "definition")
  /\ heap = [o \in {ConfigObj} |-> [url |-> "p1", itemId |-> "wms", itemProperties |-> Undef]]
  /\ InitRefRest
  /\ \E url \in {None, "img"}, tokenUrl \in {None, "t"}, proj4 \in BOOLEAN :
       imageServerItem = NewImageServerItem(url, tokenUrl, proj4)
  /\ InitImageRest
  /\ InitSdmxIdle

AllIdle == (\A t \in Tasks : Idle(t)) /\ (\A t \in MTasks : MIdle(t))

NextLoads ==
  \/ AllIdle /\ forceLoadReference("a")
  \/ \E t \in Tasks : loadPortalItemResolves(t)
  \/ \E t \in Tasks : loadPortalItemRejects(t)
  \/ \E t \in Tasks : loadAdditionalPortalInfoResolves(t)
  \/ \E t \in Tasks : loadAdditionalPortalInfoRejects(t)
  \/ AllIdle /\ forceLoadMetadata("m1")
  \/ \E t \in MTasks : getTokenResolves(t)
  \/ \E t \in MTasks : getTokenRejects(t)
  \/ \E t \in MTasks : serviceMetadataAnswers(t)
  \/ \E t \in MTasks : checkProjectionResolves(t)
  \/ \E t \in MTasks : checkProjectionRejects(t)
  \/ \E t \in MTasks : legendMetadataAnswers(t)

SpecLoads == InitLoads /\ [][NextLoads]_vars

\* the same, with invocations that may overlap
NextLoadsOverlap ==
  \/ \E t \in Tasks : forceLoadReference(t)
  \/ \E t \in Tasks : loadPortalItemResolves(t)
  \/ \E t \in Tasks : loadPortalItemRejects(t)
  \/ \E t \in Tasks : loadAdditionalPortalInfoResolves(t)
  \/ \E t \in Tasks : loadAdditionalPortalInfoRejects(t)
  \/ \E t \in MTasks : forceLoadMetadata(t)
  \/ \E t \in MTasks : getTokenResolves(t)
  \/ \E t \in MTasks : getTokenRejects(t)
  \/ \E t \in MTasks : serviceMetadataAnswers(t)
  \/ \E t \in MTasks : checkProjectionResolves(t)
  \/ \E t \in MTasks : checkProjectionRejects(t)
  \/ \E t \in MTasks : legendMetadataAnswers(t)

SpecLoadsOverlap == InitLoads /\ [][NextLoadsOverlap]_vars

\* an SDMX catalog item that loads its dataflow stratum and reads it
InitSdmx ==
  /\ ref = NewReference(defaultSupportedFormats, "ref", "definition")
  /\ heap = [o \in {ConfigObj} |-> [url |-> "p1", itemId |-> "wms", itemProperties |-> Undef]]
  /\ InitRefRest
  /\ InitImageIdle
  /\ \E modelOverrides \in ModelOverrideLists : sdmx = NewSdmxItem(modelOverrides)

NextSdmx ==
  \/ sdmxLoad
  \/ loadSdmxJsonStructureResolves
  \/ loadSdmxJsonStructureRejects
  \/ readDimensions

SpecSdmx == InitSdmx /\ [][NextSdmx]_vars

\* a catalog of either kind, whose loaded strata are duplicated for a new model
HasSdmx == sdmx # Undef

InitDuplicate == InitLoads \/ InitSdmx

NextDuplicate ==
  \/ ~HasSdmx /\ AllIdle /\ forceLoadReference("a")
  \/ \E t \in Tasks : loadPortalItemResolves(t)
  \/ \E t \in Tasks : loadPortalItemRejects(t)
  \/ \E t \in Tasks : loadAdditionalPortalInfoResolves(t)
  \/ \E t \in Tasks : loadAdditionalPortalInfoRejects(t)
  \/ ~HasSdmx /\ AllIdle /\ forceLoadMetadata("m1")
  \/ \E t \in MTasks : getTokenResolves(t)
  \/ \E t \in MTasks : getTokenRejects(t)
  \/ \E t \in MTasks : serviceMetadataAnswers(t)
  \/ \E t \in MTasks : checkProjectionResolves(t)
  \/ \E t \in MTasks : checkProjectionRejects(t)
  \/ \E t \in MTasks : legendMetadataAnswers(t)
  \/ HasSdmx /\ sdmxLoad
  \/ HasSdmx /\ loadSdmxJsonStructureResolves
  \/ HasSdmx /\ loadSdmxJsonStructureRejects
  \/ HasSdmx /\ readDimensions
  \/ duplicatePortalItemStratum
  \/ duplicateImageServerStratum
  \/ duplicateImageServerLegendStratum
  \/ duplicateSdmxJsonDataflowStratum

SpecDuplicate == InitDuplicate /\ [][NextDuplicate]_vars

\* an SDMX catalog item with its resolved modelOverrides, the unique values
\* of its table columns and the region types its region providers know
TableItem(modelOverrides, columns, regionProviderList) ==
  [modelOverrides |-> modelOverrides, columns |-> columns,
   regionProviderList |-> regionProviderList]

\* the item with the stratum that load builds from a structure message
LoadedSdmxItem(item, dataflowStructure) ==
  [NewSdmxItem(item.modelOverrides) EXCEPT
     !.catalogItems = [m \in {"item"} |-> item],
     !.stage = "loaded",
     !.answer = <<dataflowStructure>>,
     !.stratum = SdmxJsonDataflowStratumLoad("item", dataflowStructure).stratum]

\* the overrides that tag the unit attribute, the area dimension and the
\* frequency dimension
UnitOverrideLists ==
  { SelectSeq(<<a, b, c>>, LAMBDA o : o # Undef) :
      a \in {Undef, TypedOverride(UrnConceptUnit, "unit-measure")},
      b \in {Undef, TypedOverride(UrnCodelistArea, "unit-measure")},
      c \in {Undef, TypedOverride(UrnConceptFreq, "frequency"),
             [TypedOverride(UrnConceptFreq, "frequency") EXCEPT
                !.allowUndefined = Some(TRUE)]} }

UnitCodelistSets ==
  { Some(<<Codelist("CL_AREA", Some(<<CodeA1, CodeA2, CodeA3>>)),
           Codelist("CL_FREQ", Some(<<Code("A", freqName)>>))>> \o unit) :
      freqName \in {"Annual", None},
      unit \in { << >>,
                 <<Codelist("CL_UNIT", Some(<<Code("AUD", "Australian Dollar")>>))>>,
                 <<Codelist("CL_UNIT", Some(<<Code("AUD", None)>>))>> } }

UnitColumnValues ==
  {Undef, Some(<< >>), Some(<<"AUD">>), Some(<<"AUD", "USD">>), Some(<<"EUR">>)}

\* a loaded SDMX item whose unitMeasure trait is read
InitUnitMeasure ==
  /\ ref = NewReference(defaultSupportedFormats, "ref", "definition")
  /\ heap = [o \in {ConfigObj} |-> [url |-> "p1", itemId |-> "wms", itemProperties |-> Undef]]
  /\ InitRefRest
  /\ InitImageIdle
  /\ \E modelOverrides \in UnitOverrideLists, codelists \in UnitCodelistSets,
        unitValues \in UnitColumnValues, areaValues \in {Undef, Some(<<"a1">>)},
        enumeration \in {None, UrnCodelistUnit} :
       \E item \in {TableItem(modelOverrides,
                              [name \in {"UNIT_MEASURE", "AREA"} |->
                                 IF name = "AREA" THEN areaValues ELSE unitValues],
                              {})},
          dataflowStructure \in
            {StructureMessage(
                      Arr(<<Dataflow("df1", "d1")>>),
                      Arr(<<DataStructure("ds",
                              TableComponents(Some(<<DimFreq, DimArea>>), Some(<<DimTime>>),
                                              Some(<<Attribute("UNIT_MEASURE", UrnConceptUnit,
                                                               enumeration)>>)))>>),
                      codelists, ConceptSchemes, Undef)} :
         sdmx = LoadedSdmxItem(item, dataflowStructure)

NextUnitMeasure == readUnitMeasure

SpecUnitMeasure == InitUnitMeasure /\ [][NextUnitMeasure]_vars

\* the dimension of the areas, and the dimension that says which kind of
\* region the areas are
DimGeo == Dimension("GEO", "Dimension", UrnConceptArea, UrnCodelistArea, 1)
DimRegionType ==
  Dimension("REGIONTYPE", "Dimension", UrnConceptRegionType, UrnCodelistRegionType, 2)

\* the names the region providers may know
RegionNames == {"SA2", "STE", "SA3", "GEO", "Area list", "CL_AREA", "Area", "AREA"}

\* the overrides of the area codelist and of the area concept
GeoCodelistOverrides ==
  { Undef,
    [TypedOverride(UrnCodelistArea, None) EXCEPT !.regionType = "SA2"],
    TypedOverride(UrnCodelistArea, "region"),
    [TypedOverride(UrnCodelistArea, "region") EXCEPT
       !.regionTypeReplacements =
          Some(<<Replacement("geo", "GEO_2011"), Replacement("SA3", "SA3_2016")>>)],
    [TypedOverride(UrnCodelistArea, None) EXCEPT
       !.regionType = "SA2",
       !.regionTypeReplacements = Some(<<Replacement("SA2", "SA2_2016")>>)],
    [TypedOverride(UrnCodelistArea, None) EXCEPT
       !.regionType = "SA2", !.disable = Some(TRUE)] }

GeoConceptOverrides ==
  { Undef,
    [TypedOverride(UrnConceptArea, None) EXCEPT !.regionType = "STE"],
    [TypedOverride(UrnConceptArea, "region") EXCEPT
       !.regionType = "STE",
       !.regionTypeReplacements = Some(<<Replacement("STE", "STE_2016")>>)] }

\* a loaded SDMX item whose dimensionColumns trait is read
InitDimensionColumns ==
  /\ ref = NewReference(defaultSupportedFormats, "ref", "definition")
  /\ heap = [o \in {ConfigObj} |-> [url |-> "p1", itemId |-> "wms", itemProperties |-> Undef]]
  /\ InitRefRest
  /\ InitImageIdle
  /\ \E codelistOverride \in GeoCodelistOverrides,
        conceptOverride \in GeoConceptOverrides,
        regionTypeOverride \in {Undef, TypedOverride(UrnConceptRegionType, "region-type")},
        regionProviderList \in SUBSET RegionNames :
       \E item \in {TableItem(SelectSeq(<<codelistOverride, conceptOverride, regionTypeOverride>>,
                                        LAMBDA o : o # Undef),
                              [name \in {} |-> Undef], regionProviderList)},
          dataflowStructure \in
            {StructureMessage(
                      Arr(<<Dataflow("df1", "d1")>>),
                      Arr(<<DataStructure("ds",
                              TableComponents(Some(<<DimGeo, DimRegionType>>), Some(<<DimTime>>),
                                              Undef))>>),
                      Some(<<NamedCodelist("CL_AREA", "Area list", Some(<<CodeA1, CodeA2>>)),
                             Codelist("CL_REGIONTYPE", Some(<<Code("SA3", "Statistical Area 3")>>))>>),
                      ConceptSchemes, Undef)} :
         sdmx = LoadedSdmxItem(item, dataflowStructure)

NextDimensionColumns == readDimensionColumns

SpecDimensionColumns == InitDimensionColumns /\ [][NextDimensionColumns]_vars

\* a second time dimension
DimTime2 == Dimension("REF_PERIOD", "TimeDimension", UrnConceptFreq, None, 4)

\* a loaded SDMX item whose styles trait is read
InitStyles ==
  /\ ref = NewReference(defaultSupportedFormats, "ref", "definition")
  /\ heap = [o \in {ConfigObj} |-> [url |-> "p1", itemId |-> "wms", itemProperties |-> Undef]]
  /\ InitRefRest
  /\ InitImageIdle
  /\ \E modelOverrides \in UnitOverrideLists,
        dimensionArray \in {<<DimGeo, DimRegionType>>, <<DimFreq, DimGeo>>},
        timeDimensionArray \in {Undef, Some(<< >>), Some(<<DimTime>>),
                                Some(<<DimTime, DimTime2>>)},
        regionProviderList \in {{}, {"GEO"}, {"GEO", "REGIONTYPE"}, {"FREQ", "Area"}} :
       \E item \in {TableItem(modelOverrides,
                              [name \in {"UNIT_MEASURE"} |-> Some(<<"AUD">>)],
                              regionProviderList)},
          dataflowStructure \in
            {StructureMessage(
                      Arr(<<Dataflow("df1", "d1")>>),
                      Arr(<<DataStructure("ds",
                              TableComponents(Some(dimensionArray), timeDimensionArray,
                                              Some(<<Attribute("UNIT_MEASURE", UrnConceptUnit,
                                                               UrnCodelistUnit)>>)))>>),
                      Some(<<NamedCodelist("CL_AREA", "Area list", Some(<<CodeA1, CodeA2>>)),
                             Codelist("CL_FREQ", Some(<<Code("A", "Annual")>>)),
                             Codelist("CL_UNIT", Some(<<Code("AUD", "Australian Dollar")>>)),
                             Codelist("CL_REGIONTYPE", Some(<<Code("SA3", "Statistical Area 3")>>))>>),
                      ConceptSchemes, Undef)} :
         sdmx = LoadedSdmxItem(item, dataflowStructure)

NextStyles == readStyles

SpecStyles == InitStyles /\ [][NextStyles]_vars

(* --------------------- WebMapServiceGroupViewModel --------------------- *)
\* a url: what precedes the search portion, and the search portion
WmsUrl(base, search) == [base |-> base, search |-> search]

\* new WebMapServiceGroupViewModel(context), with the url and the custodian
\* the catalog then gives it
NewWmsGroup(context, url, dataCustodian) ==
  [context |-> context,
   loadedUrl |-> Undef,
   url |-> url,
   dataCustodian |-> dataCustodian,
   isLoading |-> FALSE,
   isOpen |-> TRUE,
   items |-> << >>,
   later |-> 0,          \* callbacks that runLater has queued
   requests |-> {},      \* GetCapabilities requests in flight
   issued |-> 0,         \* GetCapabilities requests issued so far
   popups |-> 0,         \* PopupMessages shown
   calls |-> 0,          \* calls of load()
   lastCall |-> [kind |-> "none", url |-> WmsUrl("", ""), wasLoading |-> FALSE,
                 after |-> "none", lastLoaded |-> Undef],
   lastOutcome |-> "none", \* how the last request ended
   lastLoaded |-> Undef] \* the url of the last load that added its layers

\* cleanAndProxyUrl: the search portion is stripped, and the proxy's url is
\* taken when the context has a proxy that wants the url
cleanAndProxyUrl(context, url) ==
  LET cleanedUrl == <<url.base>>
  IN IF context.corsProxy # Undef /\ url.base \in context.corsProxy[1]
     THEN <<"proxy/">> \o cleanedUrl
     ELSE cleanedUrl

\* a layer of the capabilities document
WmsLayer(Title, Name, queryable, Layer) ==
  [Title |-> Title, Name |-> Name, queryable |-> queryable, Layer |-> Layer]

\* createWmsDataSource, for a layer and the queryable property it inherits
createWmsDataSource(viewModel, layer, queryable, supportsJsonGetFeatureInfo, dataCustodian) ==
  [name |-> layer.Title,
   dataCustodian |-> dataCustodian,
   url |-> viewModel.url,
   layers |-> layer.Name,
   getFeatureInfoAsGeoJson |-> queryable /\ supportsJsonGetFeatureInfo,
   getFeatureInfoAsXml |-> queryable]

RECURSIVE addLayersRecursively(_, _, _, _, _)
\* addLayersRecursively: the items pushed for the layers, in that order;
\* inherited is the queryable property of the nearest ancestor that has one
addLayersRecursively(viewModel, layers, inherited, supportsJsonGetFeatureInfo, dataCustodian) ==
  IF Len(layers) = 0 THEN << >>
  ELSE LET layer == Head(layers)
           own == IF layer.queryable # Undef THEN layer.queryable ELSE inherited
           queryable == IF own # Undef THEN own[1] ELSE FALSE
           item == createWmsDataSource(viewModel, layer, queryable,
                                       supportsJsonGetFeatureInfo, dataCustodian)
           here == IF layer.Layer # Undef
                   THEN (IF layer.Name # None /\ layer.Name # "" THEN <<item>> ELSE << >>)
                        \o addLayersRecursively(viewModel, layer.Layer[1], own,
                                                supportsJsonGetFeatureInfo, dataCustodian)
                   ELSE <<item>>
       IN here \o addLayersRecursively(viewModel, Tail(layers), inherited,
                                       supportsJsonGetFeatureInfo, dataCustodian)

\* the custodian text built from the service's contact information
contactText(contactInfo) ==
  (IF contactInfo.ContactOrganization # None /\ contactInfo.ContactOrganization # ""
   THEN <<contactInfo.ContactOrganization, "<br/>">> ELSE << >>)
  \o (IF contactInfo.ContactElectronicMailAddress # None
         /\ contactInfo.ContactElectronicMailAddress # ""
      THEN <<"[", contactInfo.ContactElectronicMailAddress, "](mailto:",
             contactInfo.ContactElectronicMailAddress, ")<br/>">>
      ELSE << >>)

\* the success handler of getCapabilities: the items it adds, or the
\* exception of reading a document that is no capabilities document
capabilitiesLoaded(viewModel, json) ==
  IF json.Capability = Undef \/ json.Service = Undef \/ json.Capability[1].Layer = Undef
  THEN [kind |-> "TypeError", items |-> << >>]
  ELSE LET format == json.Capability[1].Format
           supportsJsonGetFeatureInfo ==
             format # Undef /\ "application/json" \in Range(format[1])
           dataCustodian ==
             IF viewModel.dataCustodian = Undef /\ json.Service[1].ContactInformation # Undef
             THEN Some(contactText(json.Service[1].ContactInformation[1]))
             ELSE viewModel.dataCustodian
       IN [kind |-> "ok",
           items |-> addLayersRecursively(viewModel, json.Capability[1].Layer[1], Undef,
                                          supportsJsonGetFeatureInfo, dataCustodian)]

\* WebMapServiceGroupViewModel.prototype.load
wmsLoad ==
  /\ wms # Undef
  /\ wms.calls < MaxLoads
  /\ LET call == [kind |-> "ignored", url |-> wms.url, wasLoading |-> wms.isLoading,
                  after |-> wms.lastOutcome, lastLoaded |-> wms.lastLoaded]
     IN IF Some(wms.url) = wms.loadedUrl \/ wms.isLoading
        THEN wms' = [wms EXCEPT !.calls = @ + 1, !.lastCall = call]
        ELSE wms' = [wms EXCEPT !.calls = @ + 1,
                                !.lastCall = [call EXCEPT !.kind = "started"],
                                !.isLoading = TRUE,
                                !.later = @ + 1]
  /\ UNCHANGED <<refVars, calls, imageVars, sdmx, newModel, story, diff>>

\* the callback that load() gave to runLater: the url is recorded and the
\* GetCapabilities request goes out
wmsRunLater ==
  /\ wms # Undef
  /\ wms.later > 0
  /\ wms' = [wms EXCEPT
               !.later = @ - 1,
               !.loadedUrl = Some(wms.url),
               !.issued = @ + 1,
               !.requests =
                  @ \cup {[id |-> wms.issued + 1,
                           for |-> wms.url,
                           url |-> cleanAndProxyUrl(wms.context, wms.url)
                                   \o <<"?service=WMS&request=GetCapabilities">>]}]
  /\ UNCHANGED <<refVars, calls, imageVars, sdmx, newModel, story, diff>>

\* the completion of a request that leaves isLoading alone when the success
\* handler throws
wmsCompleted_unlessThrown(req, answer) ==
  LET loaded == capabilitiesLoaded(wms, answer.json)
  IN IF answer.kind = "error"
     THEN [wms EXCEPT !.requests = @ \ {req},
                      !.popups = @ + 1,
                      !.isOpen = FALSE,
                      !.loadedUrl = Undef,
                      !.lastOutcome = "failed",
                      !.isLoading = FALSE]
     ELSE IF loaded.kind = "TypeError"
     THEN [wms EXCEPT !.requests = @ \ {req},
                      !.lastOutcome = "unprocessable"]
     ELSE [wms EXCEPT !.requests = @ \ {req},
                      !.items = @ \o loaded.items,
                      !.lastOutcome = "loaded",
                      !.lastLoaded = Some(req.for),
                      !.isLoading = FALSE]

\* getCapabilities' handlers and the always() of load: the group after the
\* request has been answered
wmsCompleted(req, answer) ==
  LET loaded == capabilitiesLoaded(wms, answer.json)
  IN IF answer.kind = "error"
     THEN [wms EXCEPT !.requests = @ \ {req},
                      !.popups = @ + 1,
                      !.isOpen = FALSE,
                      !.loadedUrl = Undef,
                      !.lastOutcome = "failed",
                      !.isLoading = FALSE]
     ELSE IF loaded.kind = "TypeError"
     THEN [wms EXCEPT !.requests = @ \ {req},
                      !.lastOutcome = "unprocessable",
                      !.isLoading = FALSE]
     ELSE [wms EXCEPT !.requests = @ \ {req},
                      !.items = @ \o loaded.items,
                      !.lastOutcome = "loaded",
                      !.lastLoaded = Some(req.for),
                      !.isLoading = FALSE]

\* a capabilities document as $.xml2json gives it
WmsJson(Format, ContactInformation, Layer) ==
  [Capability |-> Some([Format |-> Format, Layer |-> Layer]),
   Service |-> Some([ContactInformation |-> ContactInformation])]

\* what the server may answer: an error, a document that is no capabilities
\* document, or capabilities
WmsAnswers ==
  { [kind |-> "error", json |-> [Capability |-> Undef, Service |-> Undef]],
    [kind |-> "xml", json |-> [Capability |-> Undef, Service |-> Undef]],
    [kind |-> "xml",
     json |-> WmsJson(Some(<<"text/xml", "application/json">>),
                      Some([ContactOrganization |-> "org",
                            ContactElectronicMailAddress |-> "a@b"]),
                      Some(<<WmsLayer("Root", None, Some(TRUE),
                                      Some(<<WmsLayer("Roads", "roads", Undef, Undef)>>))>>))],
    [kind |-> "xml",
     json |-> WmsJson(Undef, Undef,
                      Some(<<WmsLayer("Rivers", "rivers", Undef, Undef)>>))] }

\* the server answers a GetCapabilities request
wmsAnswer ==
  /\ wms # Undef
  /\ \E req \in wms.requests, answer \in WmsAnswers :
       wms' = wmsCompleted(req, answer)
  /\ UNCHANGED <<refVars, calls, imageVars, sdmx, newModel, story, diff>>

WmsUrls == {WmsUrl("a", ""), WmsUrl("a", "?x=1")}

\* the user gives the group another url
wmsSetUrl ==
  /\ wms # Undef
  /\ \E url \in WmsUrls \ {wms.url} : wms' = [wms EXCEPT !.url = url]
  /\ UNCHANGED <<refVars, calls, imageVars, sdmx, newModel, story, diff>>

\* no catalog item is loaded
InitCatalogIdle ==
  /\ ref = NewReference(defaultSupportedFormats, "ref", "definition")
  /\ heap = [o \in {ConfigObj} |-> [url |-> "p1", itemId |-> "wms", itemProperties |-> Undef]]
  /\ InitNoDuplicate
  /\ InitRefCounters
  /\ InitImageIdle
  /\ InitSdmxIdle

\* a WMS group that the catalog has just created
InitWms ==
  /\ InitCatalogIdle
  /\ InitStoryIdle
  /\ InitDiffIdle
  /\ \E corsProxy \in {Undef, Some({"a"})}, url \in WmsUrls \cup {WmsUrl("", "")},
        dataCustodian \in {Undef, Some(<<"custodian">>)} :
       wms = NewWmsGroup([corsProxy |-> corsProxy], url, dataCustodian)

NextWms == wmsLoad \/ wmsRunLater \/ wmsAnswer \/ wmsSetUrl

SpecWms == InitWms /\ [][NextWms]_vars

\* the timer of runLater fires and the server, or the timeout of the
\* request, answers
SpecWmsFair == SpecWms /\ WF_vars(wmsRunLater) /\ WF_vars(wmsAnswer)

(* ------------------------------ StoryPanel ----------------------------- *)
\* a story, with the catalog members its share data names, if it has share data
Story(id, shareData) == [id |-> id, shareData |-> shareData]

AllStories ==
  << Story("s1", Some({"x"})), Story("s2", Undef), Story("s3", Some({"y", "x"})),
     Story("s4", Some({})) >>

\* a panel that is about to mount: terria.stories (undefined or an array),
\* viewState.currentStoryId as the view state was left, the items the
\* workbench shows
NewStoryPanel(stories, currentStoryId) ==
  [stories |-> stories,
   currentStoryId |-> currentStoryId,
   storyShown |-> TRUE,
   stage |-> "created",
   nowViewing |-> {"x", "z"},
   updates |-> {},            \* updateFromStartData calls not yet resolved
   activated |-> Undef,       \* the story the last activateStory was given
   lastCall |-> [op |-> "none", from |-> 0, index |-> 0]]

\* terria.stories || []
storiesOrEmpty(panel) == IF panel.stories = Undef THEN << >> ELSE panel.stories[1]

\* StoryPanel.activateStory and the exported activateStory: the story at the
\* (0-based) index, or the first one; reading stories[0] of no array, or
\* shareData of no story, throws
activateStory(panel, index) ==
  LET stories == storiesOrEmpty(panel)
      at == IF index >= 0 /\ index < Len(stories) THEN index ELSE 0
  IN IF panel.stories = Undef \/ Len(stories) = 0
     THEN [panel EXCEPT !.stage = "TypeError"]
     ELSE LET one == stories[at + 1]
          IN [panel EXCEPT
                !.activated = Some(one.id),
                !.updates = IF one.shareData # Undef THEN @ \cup {one.id} ELSE @]

\* UNSAFE_componentWillMount
storyMount ==
  /\ story # Undef
  /\ story.stage = "created"
  /\ LET stories == storiesOrEmpty(story)
         clamped ==
           IF story.currentStoryId > Len(stories) - 1 \/ story.currentStoryId < 0
           THEN [story EXCEPT !.currentStoryId = 0] ELSE story
         mounted == activateStory(clamped, clamped.currentStoryId)
     IN story' = IF mounted.stage = "TypeError" THEN mounted
                 ELSE [mounted EXCEPT !.stage = "mounted",
                                      !.lastCall = [op |-> "mount",
                                                    from |-> story.currentStoryId,
                                                    index |-> story.currentStoryId]]
  /\ UNCHANGED <<refVars, calls, imageVars, sdmx, newModel, wms, diff>>

\* navigateStory without the wrap past the last story
navigateStory_noWrap(panel, index) ==
  LET wrapped == IF index < 0 THEN Len(panel.stories[1]) - 1 ELSE index
  IN IF wrapped # panel.currentStoryId
     THEN LET moved == [panel EXCEPT !.currentStoryId = wrapped]
          IN IF wrapped < Len(storiesOrEmpty(panel))
             THEN activateStory(moved, wrapped) ELSE moved
     ELSE panel

\* navigateStory, of a mounted panel
navigateStory(panel, index) ==
  LET wrapped == IF index < 0 THEN Len(panel.stories[1]) - 1
                 ELSE IF index >= Len(panel.stories[1]) THEN 0
                 ELSE index
  IN IF wrapped # panel.currentStoryId
     THEN LET moved == [panel EXCEPT !.currentStoryId = wrapped]
          IN IF wrapped < Len(storiesOrEmpty(panel))
             THEN activateStory(moved, wrapped) ELSE moved
     ELSE panel

\* a navigation button is clicked
storyNavigate ==
  /\ story # Undef
  /\ story.stage = "mounted"
  /\ \E index \in 0..(Len(story.stories[1]) - 1) :
       story' = [navigateStory(story, index) EXCEPT
                   !.lastCall = [op |-> "navigate", from |-> story.currentStoryId,
                                 index |-> index]]
  /\ UNCHANGED <<refVars, calls, imageVars, sdmx, newModel, wms, diff>>

goToPrevStory ==
  /\ story # Undef
  /\ story.stage = "mounted"
  /\ story' = [navigateStory(story, story.currentStoryId - 1) EXCEPT
                 !.lastCall = [op |-> "prev", from |-> story.currentStoryId,
                               index |-> story.currentStoryId - 1]]
  /\ UNCHANGED <<refVars, calls, imageVars, sdmx, newModel, wms, diff>>

goToNextStory ==
  /\ story # Undef
  /\ story.stage = "mounted"
  /\ story' = [navigateStory(story, story.currentStoryId + 1) EXCEPT
                 !.lastCall = [op |-> "next", from |-> story.currentStoryId,
                               index |-> story.currentStoryId + 1]]
  /\ UNCHANGED <<refVars, calls, imageVars, sdmx, newModel, wms, diff>>

\* terria.updateFromStartData resolves for a story: the workbench has the
\* story's catalog members, and the then() of activateStory disables every
\* other item
storyStartDataApplied ==
  /\ story # Undef
  /\ \E id \in story.updates :
       LET one == CHOOSE s \in Range(story.stories[1]) : s.id = id
       IN story' = [story EXCEPT !.updates = @ \ {id},
                                 !.nowViewing = one.shareData[1]]
  /\ UNCHANGED <<refVars, calls, imageVars, sdmx, newModel, wms, diff>>

exitStory ==
  /\ story # Undef
  /\ story.stage = "mounted"
  /\ story.storyShown
  /\ story' = [story EXCEPT !.storyShown = FALSE]
  /\ UNCHANGED <<refVars, calls, imageVars, sdmx, newModel, wms, diff>>

\* a story panel over any story list, with the story id the view state was
\* left with
InitStory ==
  /\ InitCatalogIdle
  /\ InitWmsIdle
  /\ InitDiffIdle
  /\ \E n \in 0..MaxStories, currentStoryId \in -1..(MaxStories + 1), defined \in BOOLEAN :
       /\ ~defined => n = 0
       /\ story = NewStoryPanel(IF defined THEN Some(SubSeq(AllStories, 1, n)) ELSE Undef,
                                currentStoryId)

NextStory ==
  storyMount \/ storyNavigate \/ goToPrevStory \/ goToNextStory
  \/ storyStartDataApplied \/ exitStory

SpecStory == InitStory /\ [][NextStory]_vars

(* ------------------------------- DiffTool ------------------------------ *)
\* the diffable items of the workbench
SourceItems == {"A", "B"}

\* the split item that a call of createSplitterItems makes for a direction
SplitItem(call, splitDirection) == [call |-> call, splitDirection |-> splitDirection]

\* a diff tool that is about to mount for a source item, with the terria
\* and the view state as they are then
NewDiffTool(sourceItem, showSplitter, isMapFullScreen) ==
  [sourceItem |-> sourceItem,            \* props.sourceItem
   userSelectedSourceItem |-> None,
   leftItem |-> Undef,
   rightItem |-> Undef,
   reacting |-> FALSE,                   \* splitterItemsDisposer is armed
   originalSettings |-> Undef,
   stage |-> "created",
   showSplitter |-> showSplitter,        \* terria.showSplitter
   isMapFullScreen |-> isMapFullScreen,  \* viewState.isMapFullScreen
   show |-> [i \in SourceItems |-> Undef],  \* the items' show at the user stratum
   overlays |-> {},                      \* terria.overlays
   workbench |-> {},                     \* the split items in terria.workbench
   models |-> {},                        \* the SplitItemReferences terria holds
   loads |-> {},                         \* loadReference calls not yet settled
   added |-> {},                         \* the split items createSplitItem returned
   failed |-> {},                        \* the calls with a createSplitItem that threw
   splits |-> 0,                         \* calls of createSplitterItems
   atEnter |-> Undef,                    \* what enterDiffTool found
   hiddenByTool |-> {}]                  \* the items whose show the tool set false

\* DiffTool.sourceItem
sourceItem(tool) ==
  IF tool.userSelectedSourceItem # None THEN tool.userSelectedSourceItem
  ELSE tool.sourceItem

\* removeSplitItem
removeSplitItem(tool, item) ==
  [tool EXCEPT !.overlays = @ \ {item},
               !.models = IF item \notin tool.workbench THEN @ \ {item} ELSE @]

\* removeSplitterItems
removeSplitterItems(tool) ==
  LET left == IF tool.leftItem # Undef THEN removeSplitItem(tool, tool.leftItem[1]) ELSE tool
  IN IF left.rightItem # Undef THEN removeSplitItem(left, left.rightItem[1]) ELSE left

\* createSplitterItems up to its await: both createSplitItem calls have
\* added their reference to terria and wait for loadReference
createSplitterItems(tool) ==
  LET call == tool.splits + 1
      left == SplitItem(call, "LEFT")
      right == SplitItem(call, "RIGHT")
  IN [tool EXCEPT !.splits = call,
                  !.models = @ \cup {left, right},
                  !.loads = @ \cup {left, right}]

\* the effect of the reaction on sourceItem
sourceItemChanged(tool) == createSplitterItems(removeSplitterItems(tool))

\* componentDidMount: enterDiffTool
enterDiffTool ==
  /\ diff # Undef
  /\ diff.stage = "created"
  /\ LET reacted == sourceItemChanged([diff EXCEPT !.reacting = TRUE])
     IN diff' = [reacted EXCEPT
                   !.originalSettings = Some([showSplitter |-> diff.showSplitter,
                                              isMapFullScreen |-> diff.isMapFullScreen]),
                   !.atEnter = Some([showSplitter |-> diff.showSplitter,
                                     isMapFullScreen |-> diff.isMapFullScreen]),
                   !.showSplitter = TRUE,
                   !.isMapFullScreen = TRUE,
                   !.show[sourceItem(diff)] = Some(FALSE),
                   !.hiddenByTool = @ \cup {sourceItem(diff)},
                   !.stage = "entered"]
  /\ UNCHANGED <<refVars, calls, imageVars, sdmx, newModel, wms, story>>

\* Main is rendered, so that its controls can be used
MainRendered(tool) ==
  tool.stage = "entered" /\ tool.leftItem # Undef /\ tool.rightItem # Undef

\* the user picks a source item in Main: changeSourceItem, and the reaction
\* when the tool's sourceItem becomes another item
changeSourceItem ==
  /\ diff # Undef
  /\ MainRendered(diff)
  /\ diff.splits < MaxSplits
  /\ \E newSourceItem \in SourceItems :
       LET changed == [diff EXCEPT !.userSelectedSourceItem = newSourceItem]
       IN diff' = IF diff.reacting /\ sourceItem(changed) # sourceItem(diff)
                  THEN sourceItemChanged(changed) ELSE changed
  /\ UNCHANGED <<refVars, calls, imageVars, sdmx, newModel, wms, story>>

\* loadReference of a split item settles and createSplitItem goes on: with a
\* target the item is added to terria.overlays, without one the call throws;
\* createSplitterItems goes on when both items are there
splitItemLoaded ==
  /\ diff # Undef
  /\ \E item \in diff.loads, hasTarget \in BOOLEAN :
       LET call == item.call
           settled == [diff EXCEPT
                         !.loads = @ \ {item},
                         !.overlays = IF hasTarget THEN @ \cup {item} ELSE @,
                         !.added = IF hasTarget THEN @ \cup {item} ELSE @,
                         !.failed = IF hasTarget THEN @ ELSE @ \cup {call}]
           both == {SplitItem(call, "LEFT"), SplitItem(call, "RIGHT")}
       IN diff' = IF both \subseteq settled.added /\ call \notin settled.failed
                  THEN [settled EXCEPT !.leftItem = Some(SplitItem(call, "LEFT")),
                                       !.rightItem = Some(SplitItem(call, "RIGHT"))]
                  ELSE settled
  /\ UNCHANGED <<refVars, calls, imageVars, sdmx, newModel, wms, story>>

\* Main.generateDiff, with the dates and the style chosen
generateDiff ==
  /\ diff # Undef
  /\ MainRendered(diff)
  /\ diff.leftItem[1] \notin diff.workbench
  /\ diff' = [diff EXCEPT !.overlays = @ \ {diff.leftItem[1], diff.rightItem[1]},
                          !.workbench = @ \cup {diff.leftItem[1]},
                          !.showSplitter = FALSE]
  /\ UNCHANGED <<refVars, calls, imageVars, sdmx, newModel, wms, story>>

\* Main.resetTool
resetTool ==
  /\ diff # Undef
  /\ MainRendered(diff)
  /\ diff.leftItem[1] \in diff.workbench
  /\ diff' = [diff EXCEPT !.overlays = @ \cup {diff.leftItem[1], diff.rightItem[1]},
                          !.workbench = @ \ {diff.leftItem[1]},
                          !.showSplitter = TRUE]
  /\ UNCHANGED <<refVars, calls, imageVars, sdmx, newModel, wms, story>>

\* componentWillUnmount: leaveDiffTool
leaveDiffTool ==
  /\ diff # Undef
  /\ diff.stage = "entered"
  /\ LET removed == removeSplitterItems(diff)
     IN diff' = [removed EXCEPT
                   !.reacting = FALSE,
                   !.showSplitter = diff.originalSettings[1].showSplitter,
                   !.isMapFullScreen = diff.originalSettings[1].isMapFullScreen,
                   !.show[sourceItem(diff)] = Some(TRUE),
                   !.stage = "left"]
  /\ UNCHANGED <<refVars, calls, imageVars, sdmx, newModel, wms, story>>

\* a diff tool opened for a source item of the workbench
InitDiff ==
  /\ InitCatalogIdle
  /\ InitWmsIdle
  /\ InitStoryIdle
  /\ \E item \in SourceItems, showSplitter \in BOOLEAN, isMapFullScreen \in BOOLEAN :
       diff = NewDiffTool(item, showSplitter, isMapFullScreen)

NextDiff ==
  enterDiffTool \/ changeSourceItem \/ splitItemLoaded \/ generateDiff \/ resetTool
  \/ leaveDiffTool

SpecDiff == InitDiff /\ [][NextDiff]_vars

(* ------------------------------- claims -------------------------------- *)
Done(t) == pc[t] = "done"

IsTiledMapService(item) ==
  item.type = <<"Map Service">> /\ "Tiled" \in item.typeKeywords

\* the rule of the list that a claim calls matching, stated on the raw rules
ClaimRuleMatches(rule, item) ==
  LET typeOk == RegexTest([alts |-> rule.formatRegex, ignoreCase |-> TRUE], item.type)
      urlOk == RegexTest([alts |-> rule.urlRegex, ignoreCase |-> TRUE], item.url)
  IN IF rule.formatRegex # {} /\ rule.urlRegex # {} THEN typeOk /\ urlOk
     ELSE IF rule.formatRegex # {} THEN typeOk
     ELSE IF rule.urlRegex # {} THEN urlOk
     ELSE FALSE

ClaimMatching(rules, item) == {i \in 1..Len(rules) : ClaimRuleMatches(rules[i], item)}

\* the first rule in declaration order that matches, prepared, or Undef
ClaimFirstMatch(rules, item) ==
  IF ClaimMatching(rules, item) = {} THEN Undef
  ELSE Some(prepareSupportedFormat(rules[Min(ClaimMatching(rules, item))]))

EndsWithFeatureLayer(url) ==
  /\ Len(url) >= 3
  /\ url[Len(url) - 2] = "FeatureServer"
  /\ url[Len(url) - 1] = "/"
  /\ url[Len(url)] \in Digits

\* C1: the format matched for an item is the first rule, in declaration
\* order, that matches it (both regexes when both are given, the one given
\* otherwise), and undefined when no rule matches; with the default rules a
\* Feature Service whose url ends in /FeatureServer/<digit> is matched to the
\* single-layer rule (esri-featureServer), not to the group rule.
C1_FirstMatchWins ==
  ref.arcgisItem # Undef =>
    /\ ref.supportedFormat = ClaimFirstMatch(ref.supportedFormats, ref.arcgisItem[1])
    /\ ( /\ ref.supportedFormats = defaultSupportedFormats
         /\ ref.arcgisItem[1].type = <<"Feature Service">>
         /\ EndsWithFeatureLayer(ref.arcgisItem[1].url) )
       => /\ ref.supportedFormat # Undef
          /\ ref.supportedFormat[1].definition.type = "esri-featureServer"

C1_Witness ==
  /\ ref.supportedFormats = defaultSupportedFormats
  /\ ref.arcgisItem = Some(PortalItem("fsLayer"))
  /\ ref.supportedFormat # Undef
  /\ ref.supportedFormat[1].definition.type = "esri-featureServer"

SingleMapServerRule(rules) ==
  Cardinality({i \in 1..Len(rules) : rules[i].definition.type = "esri-mapServer"}) = 1

\* C2 as claimed: a Map Service item with the Tiled keyword always resolves
\* to a target of type esri-mapServer, whatever its url.
C2_TiledAlwaysMapServer ==
  \A t \in Tasks :
    ( /\ Done(t)
      /\ ref.supportedFormats = defaultSupportedFormats
      /\ ref.arcgisItem # Undef
      /\ IsTiledMapService(ref.arcgisItem[1]) )
    => /\ result[t].kind = "target"
       /\ result[t].target[1].type = "esri-mapServer"

\* C2 as amended: a Map Service item with the Tiled keyword resolves to a
\* target of type esri-mapServer whenever the matching on the primary
\* metadata found a rule and the rule list holds exactly one esri-mapServer
\* rule, whatever the re-match computed; when the matching on the primary
\* metadata found no rule the invocation returns no target.
C2_TiledForcedOnceMatched ==
  \A t \in Tasks :
    ( /\ Done(t)
      /\ ref.arcgisItem # Undef
      /\ IsTiledMapService(ref.arcgisItem[1])
      /\ ~hist[t].itemFetchFailed )
    => IF hist[t].atPrimary = Undef
       THEN result[t].kind = "undefined"
       ELSE SingleMapServerRule(ref.supportedFormats)
            => /\ result[t].kind = "target"
               /\ result[t].target[1].type = "esri-mapServer"
               /\ ref.supportedFormat[1].definition.type = "esri-mapServer"

\* a tiled map service resolved to esri-mapServer although no rule matches
\* its (extended) url
C2_Witness ==
  \E t \in Tasks :
    /\ Done(t)
    /\ ref.arcgisItem # Undef
    /\ IsTiledMapService(ref.arcgisItem[1])
    /\ ClaimFirstMatch(ref.supportedFormats, ref.arcgisItem[1]) = Undef
    /\ result[t].kind = "target"
    /\ result[t].target[1].type = "esri-mapServer"

\* C3: whenever the item's metadata matches no format rule (at the first
\* match or at the re-match on the extended url), forceLoadReference
\* completes with no target and raises no exception.  Stated for the items
\* that are not tiled map services, which C2 treats apart.
C3_NoMatchNoTarget ==
  \A t \in Tasks :
    ( /\ Done(t)
      /\ ref.arcgisItem # Undef
      /\ ~IsTiledMapService(ref.arcgisItem[1])
      /\ ClaimFirstMatch(ref.supportedFormats, ref.arcgisItem[1]) = Undef )
    => result[t].kind = "undefined"

\* the outcome of the invocation that just returned a target
OutcomeNow(t) ==
  [format |-> ref.supportedFormat, url |-> stratumUrl(ref),
   type |-> result[t].target[1].type, info |-> hist[t].info]

\* C4: resolving is idempotent: with the reference's traits unchanged and the
\* portal answering the same, every invocation yields the matched format,
\* the stratum url and the target type of the first one.
C4_Idempotent ==
  \A t \in Tasks :
    ( /\ Done(t)
      /\ changes = 0
      /\ firstOutcome # Undef
      /\ ~hist[t].itemFetchFailed
      /\ hist[t].info = firstOutcome[1].info )
    => /\ result[t].kind = "target"
       /\ OutcomeNow(t) = firstOutcome[1]

\* C5: a resolution that follows a change of the reference's identity starts
\* from scratch: the target it produces is built from the metadata of the
\* item the reference named when the invocation was called, never from the
\* metadata fetched for the previous identity.
C5_ReResolvedFromScratch ==
  \A t \in Tasks :
    (Done(t) /\ result[t].kind = "target")
    => ref.arcgisItem[1].id = hist[t].itemIdAtCall

StepRank(s) ==
  CASE s = "metadata" -> 1
    [] s = "match" -> 2
    [] s = "secondary" -> 3
    [] s = "rematch" -> 4
    [] s = "instantiate" -> 5

InFlight(t) == {req \in pending : req.task = t}

\* C6 as claimed: the steps of a resolution occur in order and at most one
\* request of the reference is in flight, for every interleaving of
\* forceLoadReference invocations.
C6_OneRequestInFlight ==
  /\ \A t \in Tasks : \A i, j \in 1..Len(hist[t].steps) :
       i < j => StepRank(hist[t].steps[i]) < StepRank(hist[t].steps[j])
  /\ Cardinality(pending) <= 1

\* C6 as amended: within one invocation the steps occur strictly in the
\* order metadata fetch, match, secondary fetch, re-match, instantiation, and
\* that invocation has at most one request in flight, the one its program
\* counter waits for; requests of overlapping invocations may be in flight
\* together.
C6_SequentialWithinInvocation ==
  \A t \in Tasks :
    /\ \A i, j \in 1..Len(hist[t].steps) :
         i < j => StepRank(hist[t].steps[i]) < StepRank(hist[t].steps[j])
    /\ Cardinality(InFlight(t)) <= 1
    /\ \A req \in InFlight(t) :
         \/ req.kind = "item" /\ pc[t] = "loadPortalItem"
         \/ req.kind = "data" /\ pc[t] = "loadAdditionalPortalInfo"
    /\ Idle(t) => InFlight(t) = {}

\* two invocations each waiting for a request, one for the item and one for
\* the secondary metadata
C6_Witness ==
  /\ pc["a"] = "loadAdditionalPortalInfo"
  /\ pc["b"] = "loadPortalItem"
  /\ Cardinality(pending) = 2

\* the /data answer the invocation received lists a layer and no error
ListsLayers(t) ==
  /\ hist[t].info # << >>
  /\ hist[t].info[1] # Undef
  /\ ~hist[t].info[1][1].error
  /\ hist[t].info[1][1].layers # Undef
  /\ Len(hist[t].info[1][1].layers[1]) > 0

FirstLayerId(t) == hist[t].info[1][1].layers[1][1]

\* the item url is the url before the secondary step plus, when the answer
\* lists layers, one segment holding the first layer's id
UrlAfterSecondary(t) ==
  ref.arcgisItem[1].url =
    IF ListsLayers(t) THEN hist[t].atPrimary[1].url \o <<"/", FirstLayerId(t)>>
    ELSE hist[t].atPrimary[1].url

\* C7 as claimed: when the /data answer lists layers the first layer's id is
\* appended once to the item url and the target is instantiated with the
\* first rule matching the extended url; with no layers the url is unchanged.
C7_AppendThenFirstMatch ==
  \A t \in Tasks :
    ( /\ Done(t)
      /\ ref.supportedFormats = defaultSupportedFormats
      /\ hist[t].info # << >> /\ hist[t].info[1] # Undef )
    => /\ UrlAfterSecondary(t)
       /\ (ListsLayers(t) /\ result[t].kind = "target")
          => ref.supportedFormat =
               ClaimFirstMatch(ref.supportedFormats, ref.arcgisItem[1])

\* C7 as amended: as claimed, except that for a Map Service item with the
\* Tiled keyword the target is instantiated with the esri-mapServer rule
\* when the rule list holds exactly one.
C7_AppendThenFirstMatchOrTiled ==
  \A t \in Tasks :
    (Done(t) /\ hist[t].info # << >> /\ hist[t].info[1] # Undef)
    => /\ UrlAfterSecondary(t)
       /\ (ListsLayers(t) /\ result[t].kind = "target")
          => IF /\ IsTiledMapService(ref.arcgisItem[1])
                /\ SingleMapServerRule(ref.supportedFormats)
             THEN ref.supportedFormat[1].definition.type = "esri-mapServer"
             ELSE ref.supportedFormat =
                    ClaimFirstMatch(ref.supportedFormats, ref.arcgisItem[1])

\* a group service that the extended url turned into a single feature layer
C7_Witness ==
  \E t \in Tasks :
    /\ Done(t)
    /\ ListsLayers(t)
    /\ hist[t].atPrimary[1].format[1].definition.type = "esri-featureServer-group"
    /\ result[t].kind = "target"
    /\ result[t].target[1].type = "esri-featureServer"
    /\ ref.arcgisItem[1].url = <<"h", "/", "FeatureServer", "/", "0">>

\* C8 as claimed: when the /data request fails, forceLoadReference does not
\* fail, the item url and the matched format stay as they were after the
\* primary metadata, and the target is produced.
C8_DataFailureChangesNothing ==
  \A t \in Tasks :
    ( /\ Done(t)
      /\ ref.supportedFormats = defaultSupportedFormats
      /\ hist[t].dataFetchFailed )
    => /\ result[t].kind = "target"
       /\ ref.arcgisItem[1].url = hist[t].atPrimary[1].url
       /\ ref.supportedFormat = hist[t].atPrimary[1].format

\* C8 as amended: when the /data request fails, forceLoadReference does not
\* fail and the item url stays as it was; the matched format stays as it was
\* unless the item is a Map Service with the Tiled keyword and the list holds
\* exactly one esri-mapServer rule, which is then used; the target is
\* produced whenever the factory knows the type of that format.
C8_DataFailureSwallowed ==
  \A t \in Tasks :
    (Done(t) /\ hist[t].dataFetchFailed)
    => /\ result[t].kind \in {"target", "undefined"}
       /\ ref.arcgisItem[1].url = hist[t].atPrimary[1].url
       /\ IF /\ IsTiledMapService(ref.arcgisItem[1])
             /\ SingleMapServerRule(ref.supportedFormats)
          THEN ref.supportedFormat[1].definition.type = "esri-mapServer"
          ELSE ref.supportedFormat = hist[t].atPrimary[1].format
       /\ result[t].kind = "target"
          <=> ref.supportedFormat[1].definition.type \in RegisteredTypes
       /\ result[t].kind = "target"
          => result[t].target[1].type = ref.supportedFormat[1].definition.type

C8_Witness ==
  \E t \in Tasks :
    /\ Done(t)
    /\ hist[t].dataFetchFailed
    /\ result[t].kind = "target"
    /\ result[t].target[1].type = "esri-featureServer-group"
    /\ ref.supportedFormat = hist[t].atPrimary[1].format

\* C9: when the primary item request fails, forceLoadReference fails with
\* the load error, produces no target, and no arcGisPortalDataset stratum is
\* constructed or installed, on the reference or on any other model.
C9_ItemFailureIsLoadError ==
  \A t \in Tasks :
    (Done(t) /\ hist[t].itemFetchFailed)
    => /\ result[t].kind = "loadError"
       /\ result[t].target = Undef
       /\ ref.strata.arcGisPortalDataset = hist[t].datasetAtCall
       /\ allocated = hist[t].allocatedAtCall

C9_Witness ==
  \E t \in Tasks :
    /\ Done(t)
    /\ hist[t].itemFetchFailed
    /\ result[t].kind = "loadError"
    /\ ref.strata.arcGisPortalDataset = 0

\* C10: the definition stratum of a target that forceLoadReference produced
\* holds the trait values the reference's definition stratum had when the
\* invocation was called, except url, which is unset; and every key of the
\* reference's itemProperties is set on the target's override stratum with
\* the value itemProperties gives it.
C10_DefinitionCarriedUrlUnset ==
  \A t \in Tasks :
    (Done(t) /\ result[t].kind = "target" /\ changes = hist[t].changesAtCall)
    => LET model == result[t].target[1]
       IN /\ hist[t].definitionAtCall # Undef
             => /\ model.strata.definition # None
                /\ heap[model.strata.definition] =
                     [hist[t].definitionAtCall[1] EXCEPT !.url = None]
          /\ hist[t].definitionAtCall = Undef => model.strata.definition = None
          /\ RefTraits.itemProperties # Undef
             => \A p \in RefTraits.itemProperties[1] : p \in model.strata.override
          /\ RefTraits.itemProperties = Undef => model.strata.override = {}

C10_Witness ==
  \E t \in Tasks :
    /\ Done(t)
    /\ result[t].kind = "target"
    /\ hist[t].definitionAtCall # Undef
    /\ hist[t].definitionAtCall[1].url = "p1"
    /\ heap[result[t].target[1].strata.definition].url = None
    /\ <<"url", "u1">> \in result[t].target[1].strata.override

\* C11: a stratum is owned by one model: once forceLoadReference has produced
\* a target, the reference and the target do not hold the same definition
\* stratum object, and the reference's own definition stratum has the trait
\* values it had when the invocation was called (its url among them), so that
\* no write made through the target shows on the reference.
C11_DefinitionNotShared ==
  \A t \in Tasks :
    ( /\ Done(t)
      /\ result[t].kind = "target"
      /\ changes = hist[t].changesAtCall
      /\ hist[t].definitionAtCall # Undef )
    => /\ result[t].target[1].strata.definition # ref.strata.definition
       /\ heap[ref.strata.definition] = hist[t].definitionAtCall[1]
       /\ heap[ref.strata.definition].url = hist[t].definitionAtCall[1].url

\* the loads of one stratum name that returned a stratum, oldest first
LoadsOf(stratumName) == SelectSeq(loadLog, LAMBDA e : e.stratumName = stratumName)

\* the stratum a load constructs from the response it received
ClaimLoaded(e) ==
  IF e.stratumName = "ImageServer"
  THEN ImageServerStratum("item", e.response[1], e.token)
  ELSE ImageServerLegendStratum("item", e.response)

ClaimScalarTraits == {"maximumScale", "attribution", "serviceDescription"}

\* C12: installing a loaded stratum replaces and never merges.  After any
\* sequence of completed loads the stratum stored under ImageServer or
\* ImageServerLegend is the instance of the most recently completed load of
\* that name (none when no load completed), its trait values are those of that
\* load's response alone, so a trait an earlier response defined and the
\* latest one does not is unset; the reference's arcGisPortalDataset stratum
\* is the instance its latest completed load constructed.  The strata map
\* holds one stratum per name by construction.
C12_ReplacedNeverMerged ==
  /\ \A stratumName \in {"ImageServer", "ImageServerLegend"} :
       LET loads == LoadsOf(stratumName)
           last == loads[Len(loads)]
           installed == objects[imageServerItem.strata[stratumName]]
       IN IF loads = << >> THEN imageServerItem.strata[stratumName] = 0
          ELSE /\ imageServerItem.strata[stratumName] = last.instance
               /\ stratumTraits(installed) = stratumTraits(ClaimLoaded(last))
               /\ stratumName = "ImageServer"
                  => \A k \in ClaimScalarTraits :
                       stratumTraits(ClaimLoaded(last))[k] = None
                       => stratumTraits(installed)[k] = None
  /\ \A t \in Tasks :
       (Done(t) /\ ~hist[t].itemFetchFailed)
       => ref.strata.arcGisPortalDataset = hist[t].allocatedAtCall + 1

\* a second ImageServer load whose response has no copyrightText replaced one
\* whose response had it: the attribution is unset
C12_Witness ==
  LET loads == LoadsOf("ImageServer")
  IN /\ Len(loads) = 2
     /\ loads[1].response[1].copyrightText = "c1"
     /\ loads[2].response[1].copyrightText = None
     /\ imageServerItem.strata.ImageServer = loads[2].instance
     /\ stratumTraits(objects[imageServerItem.strata.ImageServer]).attribution = None

MDone(t) == mpc[t] = "done"

\* the capabilities of a service metadata answer name Image
ClaimHasImage(json) ==
  /\ json.capabilities # Undef
  /\ \E i \in 1..Len(json.capabilities[1]) : json.capabilities[1][i] = "Image"

\* C13: a fatal load error leaves the item without the new stratum.  When
\* the item's uri is undefined, the service metadata request fails or the
\* answer's capabilities do not include "Image", forceLoadMetadata fails with
\* the titled error of that cause, the item's strata map is the one it had
\* when forceLoadMetadata was called, and no legend load is started.
C13_FatalLoadError ==
  \A t \in MTasks :
    LET h == mhist[t]
        uriUndefined == imageServerItem.url = None
        fetchFailed == h.service # << >> /\ h.service[1].failed
        noImage == /\ h.service # << >>
                   /\ ~h.service[1].failed
                   /\ ~ClaimHasImage(h.service[1].response[1])
    IN (MDone(t) /\ (uriUndefined \/ fetchFailed \/ noImage))
       => /\ h.result.kind = "TerriaError"
          /\ h.result.title =
               IF uriUndefined THEN "models.arcGisImageServerCatalogItem.invalidUrlTitle"
               ELSE IF fetchFailed THEN "models.arcGisService.invalidServerTitle"
               ELSE "models.arcGisImageServerCatalogItem.invalidServiceTitle"
          /\ imageServerItem.strata = h.strataAtCall
          /\ h.installed = << >>
          /\ ~h.legendStarted
          /\ \A req \in mpending : req.task # t

\* a load that failed on the capabilities after an earlier load had installed
\* both strata, which are still there
C13_Witness ==
  \E t \in MTasks :
    /\ MDone(t)
    /\ mhist[t].result.title = "models.arcGisImageServerCatalogItem.invalidServiceTitle"
    /\ mhist[t].strataAtCall.ImageServer # 0
    /\ mhist[t].strataAtCall.ImageServerLegend # 0
    /\ imageServerItem.strata = mhist[t].strataAtCall

ClaimNonEmptyArray(a) == a.isArray /\ Len(a.elems) > 0

\* C14: once loadSdmxJsonStructure has answered, SdmxJsonDataflowStratum.load
\* throws a TerriaError with the load-error title and returns no stratum when
\* the answer has no data, or data.dataflows is not a non-empty array, or
\* data.dataStructures is not a non-empty array; in every other case it
\* returns a stratum built from the first dataflow and the first data
\* structure of the answer.
C14_LoadChecksResponse ==
  sdmx.answer # << >> =>
    LET dataflowStructure == sdmx.answer[1]
    IN IF \/ dataflowStructure.data = Undef
          \/ ~ClaimNonEmptyArray(dataflowStructure.data[1].dataflows)
          \/ ~ClaimNonEmptyArray(dataflowStructure.data[1].dataStructures)
       THEN /\ sdmx.stage = "failed"
            /\ sdmx.error = "models.sdmxJsonDataflowStratum.loadDataErrorTitle"
            /\ sdmx.stratum = Undef
       ELSE /\ sdmx.stage = "loaded"
            /\ sdmx.error = None
            /\ sdmx.stratum # Undef
            /\ sdmx.stratum[1].sdmxJsonDataflow.dataflow =
                 dataflowStructure.data[1].dataflows.elems[1]
            /\ sdmx.stratum[1].sdmxJsonDataflow.dataStructure =
                 dataflowStructure.data[1].dataStructures.elems[1]

\* an answer with two dataflows and two data structures, loaded from the first
C14_Witness ==
  /\ sdmx.stage = "loaded"
  /\ Len(sdmx.answer[1].data[1].dataflows.elems) = 2
  /\ Len(sdmx.answer[1].data[1].dataStructures.elems) = 2
  /\ sdmx.stratum[1].sdmxJsonDataflow.dataflow.id = "df2"
  /\ sdmx.stratum[1].sdmxJsonDataflow.dataStructure.id = "ds"

\* the place of a stratum instance in the log of completed loads
Completion(id) == CHOOSE i \in 1..Len(loadLog) : loadLog[i].instance = id

\* the instance an invocation of forceLoadMetadata set under a stratum name
InstalledBy(t, stratumName) ==
  {e.instance : e \in {x \in Range(mhist[t].installed) : x.stratumName = stratumName}}

\* C15: stratum installation is last-write-wins per stratum name.  Every load
\* that returned a stratum has set it on the model, and once two invocations
\* that loaded the same stratum name on the same model have both completed,
\* the stratum present is the one of the load that completed last, whichever
\* was started first; a load after which another was started is not dropped.
C15_LastWriteWins ==
  /\ \A stratumName \in {"ImageServer", "ImageServerLegend"} :
       /\ \A t \in MTasks :
            InstalledBy(t, stratumName) \subseteq
              {loadLog[i].instance : i \in 1..Len(loadLog)}
       /\ \A t1, t2 \in MTasks :
            ( /\ t1 # t2 /\ MDone(t1) /\ MDone(t2)
              /\ InstalledBy(t1, stratumName) # {}
              /\ InstalledBy(t2, stratumName) # {} )
            => \A id1 \in InstalledBy(t1, stratumName), id2 \in InstalledBy(t2, stratumName) :
                 imageServerItem.strata[stratumName] =
                   IF Completion(id1) > Completion(id2) THEN id1 ELSE id2
  /\ \A t1, t2 \in Tasks :
       ( /\ t1 # t2 /\ Done(t1) /\ Done(t2)
         /\ hist[t1].refStratum > 0 /\ hist[t2].refStratum > 0 )
       => ref.strata.arcGisPortalDataset =
            IF hist[t1].refStratum > hist[t2].refStratum
            THEN hist[t1].refStratum ELSE hist[t2].refStratum

\* two overlapping invocations of forceLoadMetadata: the one started first
\* received its service metadata last, and its ImageServer stratum is present
C15_Witness ==
  \E t1, t2 \in MTasks :
    /\ MDone(t1) /\ MDone(t2)
    /\ mhist[t1].callNo < mhist[t2].callNo
    /\ \E id1 \in InstalledBy(t1, "ImageServer"), id2 \in InstalledBy(t2, "ImageServer") :
         /\ Completion(id1) > Completion(id2)
         /\ imageServerItem.strata.ImageServer = id1

\* the trait values a stratum of any of the four classes defines
ClaimTraitsOf(stratum) ==
  IF "sdmxJsonDataflow" \in DOMAIN stratum THEN sdmxStratumTraits(stratum)
  ELSE IF stratum.stratumName = "arcGisPortalDataset" THEN portalStratumTraits(stratum)
  ELSE stratumTraits(stratum)

\* the duplicate is of an SdmxJsonDataflowStratum
ClaimSdmxDuplicate == newModel # Undef /\ "sdmxJsonDataflow" \in DOMAIN newModel[1].original

\* the new model resolves the modelOverrides the original model resolves
ClaimSameOverrides ==
  sdmx.catalogItems["newModel"].modelOverrides = sdmx.catalogItems["item"].modelOverrides

ClaimSceneItem ==
  /\ ref.supportedFormats = defaultSupportedFormats
  /\ ref.arcgisItem = Some(PortalItem("scene"))

\* C17: a Scene Service item whose url ends in SceneServer is matched, with
\* the default rules, by the I3S rule, whose definition type is 3d-tiles; the
\* url of the arcGisPortalDataset stratum is /i3s-to-3dtiles/ followed by the
\* item url for a Scene Service item and the item url for every other item
C17_SceneServiceUrl ==
  /\ ClaimSceneItem =>
       /\ ref.supportedFormat = Some(prepareSupportedFormat(defaultSupportedFormats[1]))
       /\ defaultSupportedFormats[1].id = "I3S"
       /\ ref.supportedFormat[1].definition.type = "3d-tiles"
  /\ ref.arcgisItem # Undef =>
       stratumUrl(ref) =
         IF ref.arcgisItem[1].type = <<"Scene Service">>
         THEN <<"/i3s-to-3dtiles/">> \o ref.arcgisItem[1].url
         ELSE ref.arcgisItem[1].url

\* the Scene Service item was fetched and its stratum is on the reference
C17_Witness ==
  /\ ClaimSceneItem
  /\ ref.strata.arcGisPortalDataset # 0
  /\ stratumUrl(ref) = <<"/i3s-to-3dtiles/", "h", "/", "SceneServer">>

\* the dimensions trait was read and the getter returned a list
ClaimRead == sdmx # Undef /\ sdmx.read # << >> /\ sdmx.read[1].kind = "ok"

ClaimReadDimensions == sdmx.read[1].value

ClaimModelOverrides == sdmx.catalogItems[sdmx.stratum[1].catalogItem].modelOverrides

\* the dimensions of the data structure that carry the id of a returned one
ClaimStructureDims(d) ==
  {dim \in Range(sdmx.stratum[1].sdmxJsonDataflow.dataStructure
                   .dataStructureComponents[1].dimensionList[1].dimensions[1]) :
     dim.id = d.id /\ isEnumDimension(dim)}

\* the overrides of the catalog item for the concept of a returned dimension
ClaimConceptOverrides(d) ==
  {o \in Range(ClaimModelOverrides) :
     \E dim \in ClaimStructureDims(d) : o.id = dim.conceptIdentity}

\* the overrides of the catalog item for the codelist of a returned dimension
ClaimCodelistOverrides(d) ==
  {o \in Range(ClaimModelOverrides) :
     \E dim \in ClaimStructureDims(d) : o.id = dim.localRepresentation.enumeration}

ClaimOptionIds(d) == {option.id : option \in Range(d.options)}

\* C18: a returned dimension for which no override sets allowUndefined to
\* true and no override sets a selectedId that is the id of one of its options
\* has the id of its first option as selectedId; the selectedId of an override
\* is the dimension's only when it is the id of one of the options
C18_DefaultSelectedId ==
  ClaimRead =>
    \A d \in Range(ClaimReadDimensions) :
      LET overrides == ClaimConceptOverrides(d) \cup ClaimCodelistOverrides(d)
      IN /\ (\A o \in overrides :
               /\ o.allowUndefined # Some(TRUE)
               /\ o.selectedId \notin ClaimOptionIds(d))
            => d.selectedId = d.options[1].id
         /\ \A o \in overrides :
              (o.selectedId # None /\ d.selectedId = o.selectedId)
              => o.selectedId \in ClaimOptionIds(d)

\* an override names a selectedId that is no option and the dimension
\* selects its first option
C18_Witness ==
  /\ ClaimRead
  /\ \E d \in Range(ClaimReadDimensions) :
       /\ \E o \in ClaimCodelistOverrides(d) :
            o.selectedId # None /\ o.selectedId \notin ClaimOptionIds(d)
       /\ Len(d.options) > 1
       /\ d.selectedId = d.options[1].id

\* a returned dimension that has a codelist override and a concept override
ClaimBothOverrides(d) == ClaimCodelistOverrides(d) # {} /\ ClaimConceptOverrides(d) # {}

\* C19 as stated: with both overrides, every overridable field of a returned
\* dimension has the codelist override's value when that override sets the
\* field and the concept override's value when only that one sets it
C19_CodelistValueAlwaysUsed ==
  ClaimRead =>
    \A d \in Range(ClaimReadDimensions) :
      \A cl \in ClaimCodelistOverrides(d), co \in ClaimConceptOverrides(d) :
        /\ d.name = IF cl.name # None THEN cl.name ELSE IF co.name # None THEN co.name
                    ELSE d.name
        /\ d.allowUndefined = CoalesceOpt(cl.allowUndefined, co.allowUndefined)
        /\ d.disable = CoalesceOpt(cl.disable, co.disable)
        /\ cl.options # Undef => d.options = cl.options[1]
        /\ (cl.options = Undef /\ co.options # Undef) => d.options = co.options[1]
        /\ cl.selectedId # None => d.selectedId = cl.selectedId
        /\ (cl.selectedId = None /\ co.selectedId # None) => d.selectedId = co.selectedId

\* C19 (amended): with both overrides, name, allowUndefined and disable of a
\* returned dimension are the codelist override's when it sets them and the
\* concept override's otherwise; for options and selectedId the same choice
\* gives the candidate, the candidate options are the dimension's when they
\* are not empty and the candidate selectedId is the dimension's when it is
\* the id of one of the options
C19_CodelistOverConcept ==
  ClaimRead =>
    \A d \in Range(ClaimReadDimensions) :
      \A cl \in ClaimCodelistOverrides(d), co \in ClaimConceptOverrides(d) :
        LET candidateOptions == IF cl.options # Undef THEN cl.options ELSE co.options
            candidateSelectedId == IF cl.selectedId # None THEN cl.selectedId
                                   ELSE co.selectedId
        IN /\ d.name = IF cl.name # None THEN cl.name
                       ELSE IF co.name # None THEN co.name ELSE d.name
           /\ d.allowUndefined = IF cl.allowUndefined # Undef THEN cl.allowUndefined
                                 ELSE co.allowUndefined
           /\ d.disable = IF cl.disable # Undef THEN cl.disable ELSE co.disable
           /\ (candidateOptions # Undef /\ Len(candidateOptions[1]) > 0)
                => d.options = candidateOptions[1]
           /\ candidateSelectedId \in ClaimOptionIds(d)
                => d.selectedId = candidateSelectedId

\* both overrides give options and the dimension has the codelist override's
C19_Witness ==
  /\ ClaimRead
  /\ \E d \in Range(ClaimReadDimensions) :
       \E cl \in ClaimCodelistOverrides(d), co \in ClaimConceptOverrides(d) :
         /\ cl.options # Undef /\ co.options # Undef
         /\ cl.options # co.options
         /\ Len(cl.options[1]) > 0
         /\ d.options = cl.options[1]

\* the dimensions of the loaded data structure
ClaimAllStructureDims ==
  Range(sdmx.stratum[1].sdmxJsonDataflow.dataStructure
          .dataStructureComponents[1].dimensionList[1].dimensions[1])

\* the values that the cube regions of the constraints of type Actual list
\* for the id of a dimension
ClaimAllowedValues(d) ==
  LET constraints == sdmx.stratum[1].sdmxJsonDataflow.contentConstraints
  IN IF constraints = Undef THEN {}
     ELSE {v \in {"a1", "a2", "a3", "A", "zz"} :
             \E c \in Range(constraints[1]) :
               /\ c.type = "Actual"
               /\ \E region \in Range(c.cubeRegions) :
                    \E kv \in Range(region.keyValues) :
                      kv.id = d.id /\ v \in Range(kv.values)}

\* the codes of the codelist that the enumeration of a returned dimension names
ClaimCodes(d) ==
  LET dim == CHOOSE x \in ClaimStructureDims(d) : TRUE
  IN getCodelistByUrn(sdmx.stratum[1].sdmxJsonDataflow,
                      dim.localRepresentation.enumeration)[1].codes[1]

\* C20: a returned dimension for which no override has any option has as
\* options the codes of its codelist, in the codelist's order, whose id is
\* among the values that the cube regions of the constraints of type Actual
\* list for the dimension's id, and all the codes when they list none; every
\* returned dimension comes from a dimension of the data structure that has
\* an id, type Dimension and a codelist enumeration
C20_OptionsFromConstraints ==
  ClaimRead =>
    \A d \in Range(ClaimReadDimensions) :
      /\ \E dim \in ClaimAllStructureDims :
           /\ dim.id = d.id /\ dim.id # None
           /\ dim.type = "Dimension"
           /\ dim.localRepresentation.enumeration # None
      /\ (\A o \in ClaimConceptOverrides(d) \cup ClaimCodelistOverrides(d) :
            o.options = Undef \/ o.options = Some(<< >>))
         => d.options =
              IF ClaimAllowedValues(d) = {} THEN ClaimCodes(d)
              ELSE SelectSeq(ClaimCodes(d), LAMBDA code : code.id \in ClaimAllowedValues(d))

\* the options of a returned dimension are some but not all codes of its
\* codelist, allowed by values that two constraints list
C20_Witness ==
  /\ ClaimRead
  /\ \E d \in Range(ClaimReadDimensions) :
       /\ ClaimConceptOverrides(d) \cup ClaimCodelistOverrides(d) = {}
       /\ Cardinality(ClaimAllowedValues(d)) = 2
       /\ Len(d.options) = 2
       /\ Len(ClaimCodes(d)) = 3
       /\ \E c1, c2 \in Range(sdmx.stratum[1].sdmxJsonDataflow.contentConstraints[1]) :
            c1 # c2 /\ c1.type = "Actual" /\ c2.type = "Actual"

\* C25: a failed legend request is a soft failure.  An invocation of
\* forceLoadMetadata whose legend request failed has returned without an
\* error, the ImageServer stratum it set is still the item's and is the one
\* built from its service metadata, and the item's ImageServerLegend stratum
\* is the one this invocation set, whose legend has no items
C25_LegendFailureIsSoft ==
  \A t \in MTasks :
    (MDone(t) /\ mhist[t].legend = <<Failed>>) =>
      /\ mhist[t].result.kind = "ok"
      /\ Len(mhist[t].installed) = 2
      /\ mhist[t].installed[1].stratumName = "ImageServer"
      /\ mhist[t].installed[2].stratumName = "ImageServerLegend"
      /\ imageServerItem.strata.ImageServer = mhist[t].installed[1].instance
      /\ objects[imageServerItem.strata.ImageServer] =
           ImageServerStratum("item", getJson(mhist[t].service[1])[1], mhist[t].token)
      /\ imageServerItem.strata.ImageServerLegend = mhist[t].installed[2].instance
      /\ legends(objects[imageServerItem.strata.ImageServerLegend]) = << >>

\* the legend request of a second load failed after a first load had set a
\* legend with items
C25_Witness ==
  \E t \in MTasks :
    /\ MDone(t) /\ mhist[t].legend = <<Failed>>
    /\ mhist[t].strataAtCall.ImageServerLegend # 0
    /\ legends(objects[mhist[t].strataAtCall.ImageServerLegend]) # << >>
    /\ mhist[t].result.kind = "ok"

\* C26: whatever data structure, codelists and constraints the stratum was
\* loaded with, reading the dimensions trait does not throw, every dimension
\* it returns has at least one option, and the selectedId of every returned
\* dimension is undefined or the id of one of its options
C26_DimensionsNeverFails ==
  (sdmx # Undef /\ sdmx.read # << >>) =>
    /\ sdmx.read[1].kind # "TypeError"
    /\ \A d \in Range(sdmx.read[1].value) :
         /\ Len(d.options) > 0
         /\ d.selectedId = None \/ d.selectedId \in ClaimOptionIds(d)

\* the unitMeasure trait was read and the getter returned a string
ClaimUnitRead == sdmx # Undef /\ sdmx.unitMeasure # << >> /\ sdmx.unitMeasure[1].kind = "ok"

ClaimItem == sdmx.catalogItems["item"]
ClaimFlow == sdmx.stratum[1].sdmxJsonDataflow

\* the column of the attribute or dimension an override names, or Undef
ClaimTaggedColumn(o) ==
  LET named == IF o.id = UrnConceptUnit THEN "UNIT_MEASURE"
               ELSE IF o.id = UrnCodelistArea THEN "AREA" ELSE None
  IN IF named = None THEN Undef ELSE ClaimItem.columns[named]

\* the label the codelists of the stratum give a value of a tagged column
ClaimLabel(o, value) ==
  LET urn == IF o.id = UrnConceptUnit
             THEN ClaimFlow.dataStructure.dataStructureComponents[1]
                    .attributeList[1].attributes[1][1].localRepresentation.enumeration
             ELSE UrnCodelistArea
      lists == IF urn = None THEN {}
               ELSE {c \in Range(ClaimFlow.codelists[1]) : c.id = parseSdmxUrn(urn)[1].resourceId}
      names == {code.name : code \in UNION {Range(c.codes[1]) : c \in lists}}
                 \cap {n \in {"Australian Dollar", "A one", "A two", "A three"} :
                         \E c \in lists : \E code \in Range(c.codes[1]) :
                           code.id = value /\ code.name = n}
  IN IF names = {} THEN value ELSE CHOOSE n \in names : TRUE

\* what the overrides of type unit-measure contribute, in their order
ClaimUnits ==
  LET tagged == SelectSeq(ClaimItem.modelOverrides, LAMBDA o : o.type = "unit-measure")
      single == SelectSeq(tagged, LAMBDA o : /\ ClaimTaggedColumn(o) # Undef
                                             /\ Len(ClaimTaggedColumn(o)[1]) = 1)
  IN [i \in 1..Len(single) |-> ClaimLabel(single[i], ClaimTaggedColumn(single[i])[1][1])]

\* the item's frequency dimension with a selected option, if there is one
ClaimFrequencyDims ==
  IF \E o \in Range(ClaimItem.modelOverrides) : o.type = "frequency"
  THEN {d \in Range(itemDimensions(ClaimFlow, ClaimItem).value) :
          d.id = "FREQ" /\ d.selectedId # None}
  ELSE {}

\* C21: the unit string starts with the contributions, joined by ", ", of
\* the columns tagged unit-measure that have exactly one unique value: the
\* label the column's codelist gives that value, or the value itself; a column
\* with no or several unique values contributes nothing.  It ends with the
\* label of the selected option of the frequency dimension in parentheses when
\* that option has a label, and with nothing when no frequency dimension has
\* a selected option
C21_UnitMeasure ==
  ClaimUnitRead =>
    LET value == sdmx.unitMeasure[1].value
        units == join(ClaimUnits)
    IN /\ Len(value) >= Len(units)
       /\ SubSeq(value, 1, Len(units)) = units
       /\ ClaimFrequencyDims = {} => value = units
       /\ \A d \in ClaimFrequencyDims :
            \A o \in Range(d.options) :
              (o.id = d.selectedId /\ o.name # None)
              => value = units \o <<" (", o.name, ")">>

\* the unit column has the one value AUD, which the codelist labels, and
\* the frequency dimension has a selected option
C21_Witness ==
  /\ ClaimUnitRead
  /\ sdmx.unitMeasure[1].value = <<"Australian Dollar", " (", "Annual", ")">>

\* the unit column has the values AUD and USD and contributes nothing, while
\* the area column contributes its label
C21_WitnessSeveral ==
  /\ ClaimUnitRead
  /\ ClaimItem.columns["UNIT_MEASURE"] = Some(<<"AUD", "USD">>)
  /\ Len(SelectSeq(ClaimItem.modelOverrides, LAMBDA o : o.type = "unit-measure")) = 2
  /\ sdmx.unitMeasure[1].value = <<"A one">>

\* the dimension columns that were read without an error
ClaimColumnsRead ==
  /\ sdmx # Undef
  /\ sdmx.dimensionColumns # << >>
  /\ sdmx.dimensionColumns[1].kind = "ok"

ClaimColumns == sdmx.dimensionColumns[1].value

\* the dimensions of the data structure, which all have an id
ClaimColumnDims ==
  ClaimFlow.dataStructure.dataStructureComponents[1].dimensionList[1].dimensions[1]

ClaimOverrideOf(id) == Find(ClaimItem.modelOverrides, LAMBDA o : o.id = id)

ClaimIsRegion(dim) ==
  \/ FieldStr(ClaimOverrideOf(dim.localRepresentation.enumeration), "type") = "region"
  \/ FieldStr(ClaimOverrideOf(dim.conceptIdentity), "type") = "region"

\* the selected value of the first dimension tagged region-type that has one
ClaimSelectedRegionType ==
  LET tagged == SelectSeq(ClaimItem.modelOverrides, LAMBDA o : o.type = "region-type")
      dims == dimensions(ClaimFlow, ClaimItem.modelOverrides).value
      selected ==
        SelectSeq(dims,
                  LAMBDA d : /\ d.selectedId # None
                             /\ \E i \in 1..Len(tagged), j \in 1..Len(ClaimColumnDims) :
                                  /\ ClaimColumnDims[j].id = d.id
                                  /\ tagged[i].id \in
                                       {ClaimColumnDims[j].conceptIdentity,
                                        ClaimColumnDims[j].localRepresentation.enumeration})
  IN IF Len(selected) = 0 THEN None ELSE selected[1].selectedId

\* the candidates of a dimension, in the order they are tried
ClaimCandidates(dim) ==
  LET concept == getConceptByUrn(ClaimFlow, dim.conceptIdentity)
      codelist == getCodelistByUrn(ClaimFlow, dim.localRepresentation.enumeration)
  IN << FieldStr(ClaimOverrideOf(dim.localRepresentation.enumeration), "regionType"),
        FieldStr(ClaimOverrideOf(dim.conceptIdentity), "regionType"),
        IF ClaimIsRegion(dim) THEN ClaimSelectedRegionType ELSE None,
        dim.id,
        FieldStr(codelist, "name"), FieldStr(codelist, "id"),
        FieldStr(concept, "name"), FieldStr(concept, "id") >>

\* the region type of the first candidate the region providers know
ClaimFirstResolved(dim) ==
  LET candidates == ClaimCandidates(dim)
      known == {i \in 1..Len(candidates) :
                  /\ candidates[i] # None
                  /\ candidates[i] \in ClaimItem.regionProviderList}
  IN IF known = {} THEN None
     ELSE RegionTypeOf(candidates[CHOOSE i \in known : \A j \in known : i <= j])

\* the replacement lists of the dimension's overrides, the codelist's first
ClaimReplacements(dim) ==
  LET ofCodelist ==
        FieldOpt(ClaimOverrideOf(dim.localRepresentation.enumeration), "regionTypeReplacements")
      ofConcept == FieldOpt(ClaimOverrideOf(dim.conceptIdentity), "regionTypeReplacements")
  IN IF ofCodelist # Undef THEN ofCodelist[1]
     ELSE IF ofConcept # Undef THEN ofConcept[1] ELSE << >>

\* find/replace aliasing of a region type
ClaimAliased(dim, regionType) ==
  LET hits == SelectSeq(ClaimReplacements(dim), LAMBDA r : r.find = regionType)
  IN IF Len(hits) > 0 /\ hits[1].replace # None THEN hits[1].replace ELSE regionType

ClaimDisabled(dim) ==
  \E d \in Range(dimensions(ClaimFlow, ClaimItem.modelOverrides).value) :
    d.id = dim.id /\ d.disable = Some(TRUE)

\* C22 as stated: the region type of every dimension column is the first
\* candidate the matcher resolves, in the order codelist-override regionType,
\* concept-override regionType, selected value of a region-type dimension
\* (when this dimension's override has type region), dimension id, codelist
\* name, codelist id, concept name, concept id, with the find/replace
\* aliasing applied after the match; the column has type region when a
\* region type was resolved and hidden otherwise.
C22_RegionTypeOfEveryColumn ==
  ClaimColumnsRead =>
    /\ Len(ClaimColumns) = Len(ClaimColumnDims)
    /\ \A i \in 1..Len(ClaimColumnDims) :
         LET dim == ClaimColumnDims[i]
             regionType == ClaimAliased(dim, ClaimFirstResolved(dim))
         IN /\ ClaimColumns[i].name = dim.id
            /\ ClaimColumns[i].regionType = regionType
            /\ ClaimColumns[i].type = IF regionType # None THEN "region" ELSE "hidden"

\* C22: the column of a disabled dimension is hidden and has no region type.
\* The region type of every other dimension column is the first candidate
\* the matcher resolves, in the order codelist-override regionType,
\* concept-override regionType, selected value of a region-type dimension
\* (when this dimension's override has type region), dimension id, codelist
\* name, codelist id, concept name, concept id; the find/replace aliasing is
\* applied after the match, and only when an override of the dimension has
\* type region; the column has type region when a region type was resolved
\* and hidden otherwise.
C22_RegionType ==
  ClaimColumnsRead =>
    /\ Len(ClaimColumns) = Len(ClaimColumnDims)
    /\ \A i \in 1..Len(ClaimColumnDims) :
         LET dim == ClaimColumnDims[i]
             matched == ClaimFirstResolved(dim)
             regionType == IF ClaimIsRegion(dim) THEN ClaimAliased(dim, matched) ELSE matched
         IN /\ ClaimColumns[i].name = dim.id
            /\ IF ClaimDisabled(dim)
               THEN ClaimColumns[i].type = "hidden" /\ ClaimColumns[i].regionType = None
               ELSE /\ ClaimColumns[i].regionType = regionType
                    /\ ClaimColumns[i].type = IF regionType # None THEN "region" ELSE "hidden"

\* the area column took the selected value of the region-type dimension,
\* which the providers know, and the replacement the override has for it
C22_Witness ==
  /\ ClaimColumnsRead
  /\ ClaimIsRegion(ClaimColumnDims[1])
  /\ ClaimSelectedRegionType = "SA3"
  /\ ClaimColumns[1].type = "region"
  /\ ClaimColumns[1].regionType = "SA3_2016"

\* the area column took the concept id, the last candidate
C22_WitnessLast ==
  /\ ClaimColumnsRead
  /\ ClaimColumns[1].type = "region"
  /\ ClaimColumns[1].regionType = "AREA"

\* the time columns and the region-typed dimension columns of the stratum
ClaimTimeColumns == timeColumns(ClaimFlow)

ClaimRegionColumns ==
  SelectSeq(dimensionColumns(ClaimFlow, ClaimItem).value, LAMBDA col : col.type = "region")

\* C23: once the styles are read there is a style of the primary measure
\* column; it has a chart (x the time column, y the primary measure column)
\* if and only if there is exactly one time column and no dimension column
\* of type region; otherwise it has no chart and its regionColumn is the
\* name of the first region-typed dimension column, if there is one.
C23_ChartIffTimeSeriesWithoutRegion ==
  (sdmx # Undef /\ sdmx.styles # << >>) =>
    /\ sdmx.styles[1].kind = "ok"
    /\ Len(sdmx.styles[1].value) = 1
    /\ LET style == sdmx.styles[1].value[1]
       IN IF Len(ClaimTimeColumns) = 1 /\ Len(ClaimRegionColumns) = 0
          THEN /\ style.chart # Undef
               /\ style.chart[1].xAxisColumn = ClaimTimeColumns[1].name
               /\ style.chart[1].lines[1].yAxisColumn = "OBS_VALUE"
          ELSE /\ style.chart = Undef
               /\ style.regionColumn =
                    IF Len(ClaimRegionColumns) = 0 THEN None
                    ELSE ClaimRegionColumns[1].name

\* a load of the WMS group is under way: its callback is queued or its
\* request is in flight
ClaimWmsLoadUnderWay == wms.later > 0 \/ wms.requests # {}

\* C24: isLoading is true from load() until the GetCapabilities request has
\* completed, and every load that was started eventually sets isLoading
\* back to false, whether the server answered capabilities, an error or a
\* document that cannot be processed.
C24_IsLoadingUntilCompleted ==
  /\ [](wms # Undef => (wms.isLoading <=> ClaimWmsLoadUnderWay))
  /\ ((wms # Undef /\ wms.isLoading) ~> (wms # Undef /\ ~wms.isLoading))

\* a load that ended on a document that could not be processed
C24_Witness ==
  /\ wms # Undef
  /\ wms.lastCall.kind = "started"
  /\ wms.lastOutcome = "unprocessable"
  /\ wms.requests = {}
  /\ ~wms.isLoading

\* C27: at most one GetCapabilities request of the group is in flight; a
\* call of load() starts no load while one is in progress, nor when the
\* url is the url of the load that last succeeded; after a load that did not
\* succeed the url is not recorded, so that a call of load() made while no
\* load is in progress is only ignored after a successful load.
C27_OneRequestAndRetry ==
  wms # Undef =>
    /\ Cardinality(wms.requests) + wms.later <= 1
    /\ wms.lastCall.kind = "started" =>
         /\ ~wms.lastCall.wasLoading
         /\ wms.lastCall.after = "loaded" => Some(wms.lastCall.url) # wms.lastCall.lastLoaded
    /\ (wms.lastCall.kind = "ignored" /\ ~wms.lastCall.wasLoading) =>
         wms.lastCall.after = "loaded"
    /\ (~wms.isLoading /\ wms.lastOutcome \in {"failed", "unprocessable"}) =>
         wms.loadedUrl = Undef

ClaimStories == storiesOrEmpty(story)

\* C28: once the story panel has mounted, and after any navigation,
\* viewState.currentStoryId is never negative and is below the number of
\* stories when there are stories; next on the last story leads to the first
\* and previous on the first to the last, any other step to the neighbour;
\* the story last activated is the one at currentStoryId.
C28_CurrentStoryInRange ==
  (story # Undef /\ story.stage = "mounted") =>
    /\ story.currentStoryId >= 0
    /\ Len(ClaimStories) > 0 => story.currentStoryId < Len(ClaimStories)
    /\ story.activated = Some(ClaimStories[story.currentStoryId + 1].id)
    /\ story.lastCall.op = "next" =>
         story.currentStoryId =
           IF story.lastCall.from = Len(ClaimStories) - 1 THEN 0
           ELSE story.lastCall.from + 1
    /\ story.lastCall.op = "prev" =>
         story.currentStoryId =
           IF story.lastCall.from = 0 THEN Len(ClaimStories) - 1
           ELSE story.lastCall.from - 1
    /\ story.lastCall.op = "navigate" => story.currentStoryId = story.lastCall.index

\* next on the last of three stories has led to the first, which was activated
C28_Witness ==
  /\ story # Undef
  /\ story.stage = "mounted"
  /\ Len(ClaimStories) = 3
  /\ story.lastCall.op = "next"
  /\ story.lastCall.from = 2
  /\ story.currentStoryId = 0
  /\ story.activated = Some("s1")

\* previous on the first story has led to the last
C28_WitnessPrev ==
  /\ story # Undef
  /\ story.stage = "mounted"
  /\ Len(ClaimStories) = 3
  /\ story.lastCall.op = "prev"
  /\ story.lastCall.from = 0
  /\ story.currentStoryId = 2

\* the split items the tool has as leftItem and rightItem
ClaimCurrentSplitItems ==
  (IF diff.leftItem # Undef THEN {diff.leftItem[1]} ELSE {})
  \cup (IF diff.rightItem # Undef THEN {diff.rightItem[1]} ELSE {})

\* the split items of the last call of createSplitterItems, while the tool
\* is open
ClaimLatestSplitItems ==
  IF diff.stage = "entered"
  THEN {SplitItem(diff.splits, "LEFT"), SplitItem(diff.splits, "RIGHT")}
  ELSE {}

\* C29: in every state the split items in terria.overlays are at most the
\* tool's leftItem and rightItem, or the items of the createSplitterItems
\* call that is about to become them; once leaveDiffTool has run no split
\* item is in terria.overlays, however the loads, the changes of the source
\* item and leaveDiffTool interleave.
C29_OnlyCurrentSplitItems ==
  diff # Undef =>
    /\ diff.overlays \subseteq ClaimCurrentSplitItems \cup ClaimLatestSplitItems
    /\ diff.stage = "left" => diff.overlays = {}

\* C30: after enterDiffTool, any changes of the source item and
\* leaveDiffTool, terria.showSplitter and viewState.isMapFullScreen are what
\* they were when enterDiffTool was called, and every item whose show the
\* tool set to false at the user stratum has show true again.
C30_LeaveUndoesEnter ==
  (diff # Undef /\ diff.stage = "left") =>
    /\ diff.showSplitter = diff.atEnter[1].showSplitter
    /\ diff.isMapFullScreen = diff.atEnter[1].isMapFullScreen
    /\ \A item \in diff.hiddenByTool : diff.show[item] = Some(TRUE)

====
